---- MODULE Spec2Model ----
(***************************************************************************)
(* Tube-Mentor-AI front end: the video page (VideoPage), its content-tools *)
(* panel (ContentTools) and the quiz card (QuizCard) as state machines.    *)
(* A React handler that awaits a remote call is two steps: the call up to  *)
(* its await (the request joins `pending`) and its resumption when the     *)
(* response arrives.  The resumption runs in the closure of the render     *)
(* that started the handler, so a request carries the videoId it was made  *)
(* with.                                                                   *)
(***************************************************************************)
EXTENDS Naturals, Sequences, FiniteSets, Bags, TLC

\* ------------------------------------------------------------ bounds
MaxPending == 1
MaxRecs == 1
MaxQuestions == 3
MaxInFlight == 2

\* ------------------------------------------------------------ values
NULL == "null"
Videos == {"vA", "vB"}
Tabs == {"transcript", "summary", "quiz"}
ServerDetail == "server detail"

\* The failures of a remote call: no response at all (transport), a non-2xx
\* response whose body has a detail, a non-2xx response without one.
Errors ==
  { [hasResponse |-> FALSE, detail |-> NULL],
    [hasResponse |-> TRUE,  detail |-> ServerDetail],
    [hasResponse |-> TRUE,  detail |-> NULL] }

NoError == [hasResponse |-> FALSE, detail |-> "none"]

RECURSIVE SeqsUpTo(_, _)
SeqsUpTo(S, n) ==
  IF n = 0 THEN { <<>> }
  ELSE LET shorter == SeqsUpTo(S, n - 1)
       IN  shorter \cup { Append(s, x) : s \in shorter, x \in S }

\* data.recommendations of a similar-videos response: a list of video ids, or
\* absent (<<NULL>> stands for the missing field).
NoRecsField == << NULL >>
RecLists == SeqsUpTo(Videos, MaxRecs) \cup { NoRecsField }

VARIABLES
  videoId,                 \* useParams().videoId of the current render
  activeTab,
  transcript, summary, quiz, pdfInfo,
  recommendations,
  loadingRecommendations,
  loadingTranscript, loadingSummary, loadingQuiz, loadingPDF,
  pending,                 \* bag of requests in flight
  sent,                    \* requests dispatched by the last step
  toasts,                  \* notifications raised by the last step
  uncaught,                \* the last step let an exception escape its handler
  event,                   \* what the last step was
  toolsTab,                \* ContentTools: activeTab
  loading,                 \* ContentTools: loading[key]
  script, slides, images, voice, video,
  questions,               \* QuizCard: the questions prop
  selected, revealed,      \* QuizCard: objects keyed by question index
  quizEvent,               \* QuizCard: the handler call of the last step
  inFlightCap,             \* the most requests this run keeps in flight at once
  storedToken,             \* localStorage 'token'
  token, user, authLoading,  \* AuthProvider: token, user, loading
  thrown,                  \* message of the error the last step threw to its caller
  hash,                    \* AuthCallback: the parameters of location.hash
  status, callbackError,   \* AuthCallback: status, error
  redirectScheduled,       \* AuthCallback: the setTimeout(navigate('/')) is set
  view,                    \* the route element mounted under <Routes>
  searchLoading,           \* HomePage: loading
  searched, videos,        \* HomePage: searched, videos
  submitLoading            \* LoginPage: loading

vars == << videoId, activeTab, transcript, summary, quiz, pdfInfo,
           recommendations, loadingRecommendations, loadingTranscript,
           loadingSummary, loadingQuiz, loadingPDF, pending, sent, toasts,
           uncaught, event, toolsTab, loading, script, slides, images, voice,
           video, questions, selected, revealed, quizEvent, inFlightCap,
           storedToken, token, user, authLoading, thrown, hash, status,
           callbackError, redirectScheduled, view, searchLoading, searched,
           videos, submitLoading >>

pageData == << transcript, summary, quiz, pdfInfo >>
pageLoading == << loadingTranscript, loadingSummary, loadingQuiz, loadingPDF >>
pageVars == << videoId, activeTab, pageData, recommendations,
               loadingRecommendations, pageLoading >>
toolResults == << script, slides, images, voice, video >>
toolVars == << toolsTab, loading, toolResults >>
quizVars == << questions, selected, revealed, quizEvent >>
authVars == << storedToken, token, user, authLoading, thrown >>
callbackVars == << hash, status, callbackError, redirectScheduled >>
homeVars == << searchLoading, searched, videos >>
formVars == << homeVars, submitLoading >>
sessionVars == << authVars, callbackVars, view, formVars >>

ToolKeys == {"script", "slides", "images", "voice", "video"}

\* ------------------------------------------------------------ helpers
Req(kind, vid, s, q) ==
  [kind |-> kind, vid |-> vid, include_summary |-> s, include_quiz |-> q]

NumPending == BagCardinality(pending)
Add(bag, r) == bag (+) SetToBag({r})
Remove(bag, r) == bag (-) SetToBag({r})

Toast(level, msg) == [level |-> level, msg |-> msg]

\* err.response?.data?.detail || generic
ErrorMessageGenericOnly(err, generic) == generic
ErrorMessage(err, generic) ==
  IF err.hasResponse /\ err.detail # NULL THEN err.detail ELSE generic

\* The body of a 2xx response of the auth endpoints, as far as it is used.
NoData == [access_token |-> NULL, user |-> NULL]

EventWith(op, kind, vid, ok, err, data) ==
  [op |-> op, kind |-> kind, vid |-> vid, ok |-> ok, err |-> err, data |-> data]
Event(op, kind, vid, ok, err) == EventWith(op, kind, vid, ok, err, NoData)

RECURSIVE Filter(_, _)
Filter(list, vid) ==
  IF list = <<>> THEN <<>>
  ELSE IF Head(list) # vid THEN << Head(list) >> \o Filter(Tail(list), vid)
       ELSE Filter(Tail(list), vid)

\* data.recommendations?.filter(rec => rec.video_id !== videoId) || []
filteredRecommendations(recs, vid) ==
  IF recs = NoRecsField THEN <<>> ELSE Filter(recs, vid)

\* The payloads a 2xx response may carry, as far as the client looks into
\* them: the list of a similar-videos or images response, and the success
\* flag and error text of a voice or video response.
ItemLists(kind) ==
  IF kind \in {"similar", "similarAfterIndex"} THEN RecLists
  ELSE IF kind = "images" THEN { <<>>, << "img" >> }
  ELSE { <<>> }

DomainResults(kind) ==
  IF kind \in {"voice", "video"}
  THEN { [success |-> TRUE, error |-> NULL],
         [success |-> FALSE, error |-> NULL],
         [success |-> FALSE, error |-> "domain error"] }
  ELSE { [success |-> TRUE, error |-> NULL] }

\* A response: 2xx with its data, or one of the failures.
Responses(kind) ==
  { [ok |-> TRUE, err |-> NoError, items |-> l, success |-> d.success,
     error |-> d.error] : l \in ItemLists(kind), d \in DomainResults(kind) }
  \cup { [ok |-> FALSE, err |-> e, items |-> <<>>, success |-> FALSE,
          error |-> NULL] : e \in Errors }

\* ------------------------------------------------------------ VideoPage
\* State after the page is mounted for a video: useState defaults, then the
\* mount effect has called handleFetchTranscript.
InitVideoPage ==
  /\ videoId = "vA"
  /\ activeTab = "transcript"
  /\ transcript = NULL /\ summary = NULL /\ quiz = NULL /\ pdfInfo = NULL
  /\ recommendations = <<>>
  /\ loadingRecommendations = FALSE
  /\ loadingTranscript = TRUE
  /\ loadingSummary = FALSE /\ loadingQuiz = FALSE /\ loadingPDF = FALSE
  /\ pending = SetToBag({ Req("transcript", videoId, FALSE, FALSE) })
  /\ sent = << Req("transcript", videoId, FALSE, FALSE) >>
  /\ toasts = <<>>
  /\ uncaught = FALSE
  /\ event = Event("mount", "", "", TRUE, NoError)

\* ContentTools after construction: its useState defaults.  An absent key of
\* the loading map reads as false everywhere it is used.
InitContentTools ==
  /\ toolsTab = NULL
  /\ loading = [k \in ToolKeys |-> FALSE]
  /\ script = NULL /\ slides = NULL /\ images = <<>>
  /\ voice = NULL /\ video = NULL

\* handleFetchTranscript up to its await, for the render whose videoId is vid.
handleFetchTranscript(vid) ==
  /\ loadingTranscript' = TRUE
  /\ pending' = Add(pending, Req("transcript", vid, FALSE, FALSE))
  /\ sent' = << Req("transcript", vid, FALSE, FALSE) >>
  /\ toasts' = <<>>
  /\ uncaught' = FALSE

\* A recommendation card is a <Link to=/video/:id>: the route parameter
\* changes on the same VideoPage instance (no state is reset) and the
\* [videoId] effect calls handleFetchTranscript.
ClickRecommendation(i) ==
  /\ transcript # NULL /\ ~loadingRecommendations
  /\ i \in 1..Len(recommendations)
  /\ recommendations[i] # videoId
  /\ NumPending < inFlightCap
  /\ videoId' = recommendations[i]
  /\ handleFetchTranscript(recommendations[i])
  /\ event' = Event("navigate", "", "", TRUE, NoError)
  /\ UNCHANGED << inFlightCap, sessionVars, toolVars, quizVars, activeTab, pageData, recommendations, loadingRecommendations,
                  loadingSummary, loadingQuiz, loadingPDF >>

\* The tab buttons: onClick={() => setActiveTab(tab.key)}.
ClickTab(t) ==
  /\ activeTab' = t
  /\ sent' = <<>> /\ toasts' = <<>> /\ uncaught' = FALSE
  /\ event' = Event("tab", "", "", TRUE, NoError)
  /\ UNCHANGED << inFlightCap, sessionVars, toolVars, quizVars, videoId, pageData, recommendations, loadingRecommendations,
                  pageLoading, pending >>

\* The request handleFetchTranscript issues after a transcript for vid has
\* loaded: fetchRecommendationsOnly(), similar videos without indexing.
TranscriptFollowUpIndexing(vid) == Req("index", vid, FALSE, FALSE)
TranscriptFollowUp(vid) == Req("similar", vid, FALSE, FALSE)

\* handleFetchTranscript resumed with the response to r.
ResumeFetchTranscript(r, resp) ==
  /\ r.kind = "transcript" /\ BagIn(r, pending)
  /\ event' = Event("response", r.kind, r.vid, resp.ok, resp.err)
  /\ uncaught' = FALSE
  /\ loadingTranscript' = FALSE
  /\ IF resp.ok
     THEN \* setTranscript(data); toast.success; fetchRecommendationsOnly()
          /\ transcript' = r.vid
          /\ toasts' = << Toast("success", "Transcript loaded!") >>
          /\ loadingRecommendations' = TRUE
          /\ pending' = Add(Remove(pending, r), TranscriptFollowUp(r.vid))
          /\ sent' = << TranscriptFollowUp(r.vid) >>
     ELSE /\ toasts' = << Toast("error",
                            ErrorMessage(resp.err, "Failed to fetch transcript.")) >>
          /\ pending' = Remove(pending, r)
          /\ sent' = <<>>
          /\ UNCHANGED << transcript, loadingRecommendations >>
  /\ UNCHANGED << inFlightCap, sessionVars, toolVars, quizVars, videoId, activeTab, summary, quiz, pdfInfo, recommendations,
                  loadingSummary, loadingQuiz, loadingPDF >>

\* What the catch block of the two recommendation fetchers stores.
RecommendationsOnFailure(old) == <<>>

\* fetchRecommendationsOnly, and the second half of
\* handleIndexAndFetchRecommendations, resumed with the similar-videos
\* response to r.
ResumeSimilarVideos(r, resp) ==
  /\ r.kind \in {"similar", "similarAfterIndex"} /\ BagIn(r, pending)
  /\ event' = Event("response", r.kind, r.vid, resp.ok, resp.err)
  /\ uncaught' = FALSE
  /\ recommendations' =
       IF resp.ok THEN filteredRecommendations(resp.items, r.vid)
       ELSE RecommendationsOnFailure(recommendations)
  /\ toasts' = <<>>      \* the catch block only logs
  /\ loadingRecommendations' = FALSE
  /\ pending' = Remove(pending, r)
  /\ sent' = <<>>
  /\ UNCHANGED << inFlightCap, sessionVars, toolVars, quizVars, videoId, activeTab, pageData, pageLoading >>

\* handleIndexAndFetchRecommendations resumed with the index response to r,
\* with a catch block that also resets the summary.
ResumeIndexVideoClearingSummary(r, resp) ==
  /\ r.kind = "index" /\ BagIn(r, pending)
  /\ event' = Event("response", r.kind, r.vid, resp.ok, resp.err)
  /\ uncaught' = FALSE
  /\ toasts' = <<>>
  /\ IF resp.ok
     THEN /\ pending' = Add(Remove(pending, r),
                            Req("similarAfterIndex", r.vid, FALSE, FALSE))
          /\ sent' = << Req("similarAfterIndex", r.vid, FALSE, FALSE) >>
          /\ UNCHANGED << recommendations, loadingRecommendations, summary >>
     ELSE /\ recommendations' = RecommendationsOnFailure(recommendations)
          /\ summary' = NULL
          /\ loadingRecommendations' = FALSE
          /\ pending' = Remove(pending, r)
          /\ sent' = <<>>
  /\ UNCHANGED << inFlightCap, sessionVars, toolVars, quizVars, videoId, activeTab, transcript, quiz,
                  pdfInfo, pageLoading >>

\* handleIndexAndFetchRecommendations resumed with the index response to r.
ResumeIndexVideo(r, resp) ==
  /\ r.kind = "index" /\ BagIn(r, pending)
  /\ event' = Event("response", r.kind, r.vid, resp.ok, resp.err)
  /\ uncaught' = FALSE
  /\ toasts' = <<>>
  /\ IF resp.ok
     THEN /\ pending' = Add(Remove(pending, r),
                            Req("similarAfterIndex", r.vid, FALSE, FALSE))
          /\ sent' = << Req("similarAfterIndex", r.vid, FALSE, FALSE) >>
          /\ UNCHANGED << recommendations, loadingRecommendations >>
     ELSE /\ recommendations' = RecommendationsOnFailure(recommendations)
          /\ loadingRecommendations' = FALSE
          /\ pending' = Remove(pending, r)
          /\ sent' = <<>>
  /\ UNCHANGED << inFlightCap, sessionVars, toolVars, quizVars, videoId, activeTab, pageData, pageLoading >>

\* handleGenerateSummary up to its await.
handleGenerateSummary ==
  /\ uncaught' = FALSE
  /\ event' = Event("call", "summary", "", TRUE, NoError)
  /\ IF transcript = NULL
     THEN /\ toasts' = << Toast("error", "Fetch transcript first!") >>
          /\ sent' = <<>>
          /\ UNCHANGED << loadingSummary, activeTab, pending >>
     ELSE /\ NumPending < inFlightCap
          /\ loadingSummary' = TRUE
          /\ activeTab' = "summary"
          /\ pending' = Add(pending, Req("summary", videoId, FALSE, FALSE))
          /\ sent' = << Req("summary", videoId, FALSE, FALSE) >>
          /\ toasts' = <<>>
  /\ UNCHANGED << inFlightCap, sessionVars, toolVars, quizVars, videoId, pageData, recommendations, loadingRecommendations,
                  loadingTranscript, loadingQuiz, loadingPDF >>

\* handleGenerateSummary resumed with the response to r.  On success it
\* calls handleIndexAndFetchRecommendations without awaiting it: that call
\* runs up to its own await (the index request) inside this step.
ResumeGenerateSummary(r, resp) ==
  /\ r.kind = "summary" /\ BagIn(r, pending)
  /\ event' = Event("response", r.kind, r.vid, resp.ok, resp.err)
  /\ uncaught' = FALSE
  /\ loadingSummary' = FALSE
  /\ IF resp.ok
     THEN /\ summary' = r.vid
          /\ toasts' = << Toast("success", "Summary generated!") >>
          /\ loadingRecommendations' = TRUE
          /\ pending' = Add(Remove(pending, r), Req("index", r.vid, FALSE, FALSE))
          /\ sent' = << Req("index", r.vid, FALSE, FALSE) >>
     ELSE /\ toasts' = << Toast("error",
                            ErrorMessage(resp.err, "Summary generation failed.")) >>
          /\ pending' = Remove(pending, r)
          /\ sent' = <<>>
          /\ UNCHANGED << summary, loadingRecommendations >>
  /\ UNCHANGED << inFlightCap, sessionVars, toolVars, quizVars, videoId, activeTab, transcript, quiz, pdfInfo, recommendations,
                  loadingTranscript, loadingQuiz, loadingPDF >>

\* handleGenerateQuiz up to its await.
handleGenerateQuiz ==
  /\ uncaught' = FALSE
  /\ event' = Event("call", "quiz", "", TRUE, NoError)
  /\ IF transcript = NULL
     THEN /\ toasts' = << Toast("error", "Fetch transcript first!") >>
          /\ sent' = <<>>
          /\ UNCHANGED << loadingQuiz, activeTab, pending >>
     ELSE /\ NumPending < inFlightCap
          /\ loadingQuiz' = TRUE
          /\ activeTab' = "quiz"
          /\ pending' = Add(pending, Req("quiz", videoId, FALSE, FALSE))
          /\ sent' = << Req("quiz", videoId, FALSE, FALSE) >>
          /\ toasts' = <<>>
  /\ UNCHANGED << inFlightCap, sessionVars, toolVars, quizVars, videoId, pageData, recommendations, loadingRecommendations,
                  loadingTranscript, loadingSummary, loadingPDF >>

\* handleGenerateQuiz resumed, switching to the quiz tab once the quiz is there.
ResumeGenerateQuizActivatingTab(r, resp) ==
  /\ r.kind = "quiz" /\ BagIn(r, pending)
  /\ event' = Event("response", r.kind, r.vid, resp.ok, resp.err)
  /\ uncaught' = FALSE
  /\ loadingQuiz' = FALSE
  /\ pending' = Remove(pending, r)
  /\ sent' = <<>>
  /\ IF resp.ok
     THEN /\ quiz' = r.vid
          /\ activeTab' = "quiz"
          /\ toasts' = << Toast("success", "Quiz generated!") >>
     ELSE /\ toasts' = << Toast("error",
                            ErrorMessage(resp.err, "Quiz generation failed.")) >>
          /\ UNCHANGED << quiz, activeTab >>
  /\ UNCHANGED << inFlightCap, sessionVars, toolVars, quizVars, videoId, transcript, summary, pdfInfo,
                  recommendations, loadingRecommendations, loadingTranscript,
                  loadingSummary, loadingPDF >>

\* handleGenerateQuiz resumed with the response to r.
ResumeGenerateQuiz(r, resp) ==
  /\ r.kind = "quiz" /\ BagIn(r, pending)
  /\ event' = Event("response", r.kind, r.vid, resp.ok, resp.err)
  /\ uncaught' = FALSE
  /\ loadingQuiz' = FALSE
  /\ pending' = Remove(pending, r)
  /\ sent' = <<>>
  /\ IF resp.ok
     THEN /\ quiz' = r.vid
          /\ toasts' = << Toast("success", "Quiz generated!") >>
     ELSE /\ toasts' = << Toast("error",
                            ErrorMessage(resp.err, "Quiz generation failed.")) >>
          /\ UNCHANGED quiz
  /\ UNCHANGED << inFlightCap, sessionVars, toolVars, quizVars, videoId, activeTab, transcript, summary, pdfInfo,
                  recommendations, loadingRecommendations, loadingTranscript,
                  loadingSummary, loadingPDF >>

\* The prerequisite test of handleGeneratePDF: !summary && !quiz.
PDFRejectedLikeSummary == transcript = NULL
PDFRejected == summary = NULL /\ quiz = NULL

\* handleGeneratePDF calling generatePDF(videoId): both flags at their defaults.
handleGeneratePDFWithDefaults ==
  /\ uncaught' = FALSE
  /\ event' = Event("call", "pdf", "", TRUE, NoError)
  /\ IF PDFRejected
     THEN /\ toasts' = << Toast("error", "Generate a summary or quiz first!") >>
          /\ sent' = <<>>
          /\ UNCHANGED << loadingPDF, pending >>
     ELSE /\ NumPending < inFlightCap
          /\ loadingPDF' = TRUE
          /\ pending' = Add(pending, Req("pdf", videoId, TRUE, TRUE))
          /\ sent' = << Req("pdf", videoId, TRUE, TRUE) >>
          /\ toasts' = <<>>
  /\ UNCHANGED << inFlightCap, sessionVars, toolVars, quizVars, videoId, activeTab, pageData, recommendations,
                  loadingRecommendations, loadingTranscript, loadingSummary,
                  loadingQuiz >>

\* handleGeneratePDF up to its await: generatePDF(videoId, !!summary, !!quiz).
handleGeneratePDF ==
  /\ uncaught' = FALSE
  /\ event' = Event("call", "pdf", "", TRUE, NoError)
  /\ IF PDFRejected
     THEN /\ toasts' = << Toast("error", "Generate a summary or quiz first!") >>
          /\ sent' = <<>>
          /\ UNCHANGED << loadingPDF, pending >>
     ELSE /\ NumPending < inFlightCap
          /\ loadingPDF' = TRUE
          /\ pending' = Add(pending, Req("pdf", videoId, summary # NULL, quiz # NULL))
          /\ sent' = << Req("pdf", videoId, summary # NULL, quiz # NULL) >>
          /\ toasts' = <<>>
  /\ UNCHANGED << inFlightCap, sessionVars, toolVars, quizVars, videoId, activeTab, pageData, recommendations,
                  loadingRecommendations, loadingTranscript, loadingSummary,
                  loadingQuiz >>

\* handleGeneratePDF resumed with the response to r.
ResumeGeneratePDF(r, resp) ==
  /\ r.kind = "pdf" /\ BagIn(r, pending)
  /\ event' = Event("response", r.kind, r.vid, resp.ok, resp.err)
  /\ uncaught' = FALSE
  /\ loadingPDF' = FALSE
  /\ pending' = Remove(pending, r)
  /\ sent' = <<>>
  /\ IF resp.ok
     THEN /\ pdfInfo' = r.vid
          /\ toasts' = << Toast("success", "PDF generated!") >>
     ELSE /\ toasts' = << Toast("error",
                            ErrorMessage(resp.err, "PDF generation failed.")) >>
          /\ UNCHANGED pdfInfo
  /\ UNCHANGED << inFlightCap, sessionVars, toolVars, quizVars, videoId, activeTab, transcript, summary, quiz,
                  recommendations, loadingRecommendations, loadingTranscript,
                  loadingSummary, loadingQuiz >>

\* ActionBtn: disabled={loading || disabled}; a disabled button fires no click.
ClickGenerateSummary == ~(loadingSummary \/ transcript = NULL) /\ handleGenerateSummary
ClickGenerateQuiz == ~(loadingQuiz \/ transcript = NULL) /\ handleGenerateQuiz
ClickGeneratePDF == ~(loadingPDF \/ (summary = NULL /\ quiz = NULL)) /\ handleGeneratePDF

\* ------------------------------------------------------------ ContentTools
\* The props VideoPage passes: hasTranscript={!!transcript}, hasSummary={!!summary}.
hasTranscript == transcript # NULL
hasSummaryFromTranscript == transcript # NULL
hasSummary == summary # NULL

\* setLoadingState storing { [key]: value } without spreading prev.
setLoadingStateDroppingPrev(key, value) ==
  loading' = [k \in ToolKeys |-> IF k = key THEN value ELSE FALSE]

\* setLoadingState(key, value)
setLoadingState(key, value) == loading' = [loading EXCEPT ![key] = value]

\* The common start of the five tool handlers, up to the await: the
\* prerequisite test, setLoadingState(key, true), setActiveTab(key), the call.
StartTool(key) ==
  /\ uncaught' = FALSE
  /\ event' = Event("call", key, "", TRUE, NoError)
  /\ IF ~hasSummary
     THEN /\ toasts' = << Toast("error", "Generate summary first!") >>
          /\ sent' = <<>>
          /\ UNCHANGED << loading, toolsTab, pending >>
     ELSE /\ NumPending < inFlightCap
          /\ setLoadingState(key, TRUE)
          /\ toolsTab' = key
          /\ pending' = Add(pending, Req(key, videoId, FALSE, FALSE))
          /\ sent' = << Req(key, videoId, FALSE, FALSE) >>
          /\ toasts' = <<>>
  /\ UNCHANGED << inFlightCap, sessionVars, pageVars, quizVars, toolResults >>

handleGenerateScript == StartTool("script")
handleGenerateSlides == StartTool("slides")
handleGetImages == StartTool("images")
handleGenerateVoice == StartTool("voice")
handleGenerateVideo == StartTool("video")

\* What the step records of a response: its failure, where a 2xx response
\* whose data.success is false counts as one with data.error as its detail.
ResponseError(resp) ==
  IF resp.ok /\ ~resp.success
  THEN [hasResponse |-> TRUE, detail |-> resp.error]
  ELSE resp.err

\* The frame of a tool handler's resumption with a finally block that also
\* makes the tool's tab the active one.
FinishToolActivatingTab(r, resp) ==
  /\ BagIn(r, pending)
  /\ event' = Event("response", r.kind, r.vid, resp.ok, ResponseError(resp))
  /\ uncaught' = FALSE
  /\ setLoadingState(r.kind, FALSE)
  /\ toolsTab' = r.kind
  /\ pending' = Remove(pending, r)
  /\ sent' = <<>>
  /\ UNCHANGED << inFlightCap, sessionVars, pageVars, quizVars >>

\* The common frame of a tool handler's resumption: the finally block.
FinishTool(r, resp) ==
  /\ BagIn(r, pending)
  /\ event' = Event("response", r.kind, r.vid, resp.ok, ResponseError(resp))
  /\ uncaught' = FALSE
  /\ setLoadingState(r.kind, FALSE)
  /\ pending' = Remove(pending, r)
  /\ sent' = <<>>
  /\ UNCHANGED << inFlightCap, sessionVars, pageVars, quizVars, toolsTab >>

ResumeGenerateScript(r, resp) ==
  /\ r.kind = "script" /\ FinishTool(r, resp)
  /\ IF resp.ok
     THEN /\ script' = r.vid
          /\ toasts' = << Toast("success", "Script generated!") >>
     ELSE /\ toasts' = << Toast("error",
                            ErrorMessage(resp.err, "Failed to generate script")) >>
          /\ UNCHANGED script
  /\ UNCHANGED << slides, images, voice, video >>

\* The success texts of slides and images carry a count of the response
\* (data.slide_count, data.length), left out of the message here.
ResumeGenerateSlides(r, resp) ==
  /\ r.kind = "slides" /\ FinishTool(r, resp)
  /\ IF resp.ok
     THEN /\ slides' = r.vid
          /\ toasts' = << Toast("success", "Presentation created!") >>
     ELSE /\ toasts' = << Toast("error",
                            ErrorMessage(resp.err, "Failed to generate slides")) >>
          /\ UNCHANGED slides
  /\ UNCHANGED << script, images, voice, video >>

ResumeGetImages(r, resp) ==
  /\ r.kind = "images" /\ FinishTool(r, resp)
  /\ IF resp.ok
     THEN /\ images' = resp.items
          /\ toasts' = << Toast("success", "Found relevant images!") >>
     ELSE /\ toasts' = << Toast("error",
                            ErrorMessage(resp.err, "Failed to find images")) >>
          /\ UNCHANGED images
  /\ UNCHANGED << script, slides, voice, video >>

\* handleGenerateVoice resumed, storing data whatever data.success is.
ResumeGenerateVoiceIgnoringSuccess(r, resp) ==
  /\ r.kind = "voice" /\ FinishTool(r, resp)
  /\ IF resp.ok
     THEN /\ voice' = r.vid
          /\ toasts' = << Toast("success", "Voice narration generated!") >>
     ELSE /\ toasts' = << Toast("error",
                            ErrorMessage(resp.err, "Failed to generate voice")) >>
          /\ UNCHANGED voice
  /\ UNCHANGED << script, slides, images, video >>

ResumeGenerateVoice(r, resp) ==
  /\ r.kind = "voice" /\ FinishTool(r, resp)
  /\ IF resp.ok
     THEN IF resp.success
          THEN /\ voice' = r.vid
               /\ toasts' = << Toast("success", "Voice narration generated!") >>
          ELSE /\ toasts' = << Toast("error",
                                 IF resp.error # NULL THEN resp.error
                                 ELSE "Voice generation failed") >>
               /\ UNCHANGED voice
     ELSE /\ toasts' = << Toast("error",
                            ErrorMessage(resp.err, "Failed to generate voice")) >>
          /\ UNCHANGED voice
  /\ UNCHANGED << script, slides, images, video >>

ResumeGenerateVideo(r, resp) ==
  /\ r.kind = "video" /\ FinishTool(r, resp)
  /\ IF resp.ok
     THEN IF resp.success
          THEN /\ video' = r.vid
               /\ toasts' = << Toast("success", "Video generated!") >>
          ELSE /\ toasts' = << Toast("error", "Video generation failed") >>
               /\ UNCHANGED video
     ELSE /\ toasts' = << Toast("error",
                            ErrorMessage(resp.err, "Failed to generate video")) >>
          /\ UNCHANGED video
  /\ UNCHANGED << script, slides, images, voice >>

\* The content area: the panel of key is rendered when key is the active tab
\* and its result is stored (for images: when the stored list is not empty).
PanelRendered(key) ==
  /\ toolsTab = key
  /\ CASE key = "script" -> script # NULL
       [] key = "slides" -> slides # NULL
       [] key = "images" -> Len(images) > 0
       [] key = "voice" -> voice # NULL
       [] key = "video" -> video # NULL

\* A ToolButton with disabled={disabled}: not disabled while its request runs.
ToolEnabledWhileLoading(key) == hasTranscript /\ hasSummary

\* ToolButton: disabled={loading || disabled}, rendered only with a transcript.
ToolEnabled(key) == hasTranscript /\ ~(loading[key] \/ ~hasSummary)
ClickScript == ToolEnabled("script") /\ handleGenerateScript
ClickSlides == ToolEnabled("slides") /\ handleGenerateSlides
ClickImages == ToolEnabled("images") /\ handleGetImages
ClickVoice == ToolEnabled("voice") /\ handleGenerateVoice
ClickVideo == ToolEnabled("video") /\ handleGenerateVideo

\* ------------------------------------------------------------ QuizCard
UNDEFINED == "undefined"
Options == {"a", "b", ""}
QIdx == 0..(MaxQuestions - 1)

\* obj[key] of a JavaScript object: undefined for an absent key.
Get(obj, key) == IF key \in DOMAIN obj THEN obj[key] ELSE UNDEFINED

\* { ...prev, [key]: value }
Spread(prev, key, value) ==
  [k \in DOMAIN prev \cup {key} |-> IF k = key THEN value ELSE prev[k]]

\* JavaScript truthiness of a string or undefined.
Truthy(x) == x # UNDEFINED /\ x # ""

\* Truthiness of revealed[key]: the stored values are booleans.
IsRevealed(obj, key) == key \in DOMAIN obj /\ obj[key]

EmptyObject == [k \in {} |-> UNDEFINED]
NoQuizEvent == [op |-> "none", q |-> 0, opt |-> ""]

\* No QuizCard is mounted (the page shows another tab, or has no quiz).
NoQuizCard ==
  /\ questions = EmptyObject
  /\ selected = EmptyObject /\ revealed = EmptyObject
  /\ quizEvent = NoQuizEvent

\* A QuizCard right after it is mounted with a quiz of MaxQuestions
\* questions, each with the options of Options and one of them correct.
InitQuizCard ==
  /\ questions \in [QIdx -> { [options |-> Options, correct_answer |-> c] :
                              c \in Options }]
  /\ selected = EmptyObject /\ revealed = EmptyObject
  /\ quizEvent = [op |-> "mount", q |-> 0, opt |-> ""]

\* handleSelect without its test of revealed[qIdx].
handleSelectUnguarded(qIdx, option) ==
  /\ quizEvent' = [op |-> "handleSelect", q |-> qIdx, opt |-> option]
  /\ selected' = Spread(selected, qIdx, option)
  /\ UNCHANGED << questions, revealed >>

\* handleSelect storing { [qIdx]: option } without spreading prev.
handleSelectDroppingPrev(qIdx, option) ==
  /\ quizEvent' = [op |-> "handleSelect", q |-> qIdx, opt |-> option]
  /\ IF IsRevealed(revealed, qIdx)
     THEN UNCHANGED selected
     ELSE selected' = Spread(EmptyObject, qIdx, option)
  /\ UNCHANGED << questions, revealed >>

handleSelect(qIdx, option) ==
  /\ quizEvent' = [op |-> "handleSelect", q |-> qIdx, opt |-> option]
  /\ IF IsRevealed(revealed, qIdx)
     THEN UNCHANGED selected
     ELSE selected' = Spread(selected, qIdx, option)
  /\ UNCHANGED << questions, revealed >>

handleReveal(qIdx) ==
  /\ quizEvent' = [op |-> "handleReveal", q |-> qIdx, opt |-> ""]
  /\ revealed' = Spread(revealed, qIdx, TRUE)
  /\ UNCHANGED << questions, selected >>

\* An option button: onClick={() => handleSelect(qIdx, opt)}.
ClickOption(qIdx, option) ==
  /\ qIdx \in DOMAIN questions /\ option \in questions[qIdx].options
  /\ handleSelect(qIdx, option)
  /\ UNCHANGED << inFlightCap, sessionVars, pageVars, toolVars, pending, sent, toasts, uncaught, event >>

\* "Check Answer" rendered for every question that is not revealed.
ClickCheckAnswerWithoutSelection(qIdx) ==
  /\ qIdx \in DOMAIN questions
  /\ ~IsRevealed(revealed, qIdx)
  /\ handleReveal(qIdx)
  /\ UNCHANGED << inFlightCap, sessionVars, pageVars, toolVars, pending, sent, toasts, uncaught, event >>

\* "Check Answer" is rendered when selected[qIdx] && !revealed[qIdx].
ClickCheckAnswer(qIdx) ==
  /\ qIdx \in DOMAIN questions
  /\ Truthy(Get(selected, qIdx)) /\ ~IsRevealed(revealed, qIdx)
  /\ handleReveal(qIdx)
  /\ UNCHANGED << inFlightCap, sessionVars, pageVars, toolVars, pending, sent, toasts, uncaught, event >>

\* Object.keys(revealed) of integer-like keys: ascending.
RECURSIVE Ascending(_)
Ascending(S) ==
  IF S = {} THEN <<>>
  ELSE LET m == CHOOSE x \in S : \A y \in S : x <= y
       IN  << m >> \o Ascending(S \ {m})
ObjectKeys(obj) == Ascending(DOMAIN obj)

\* The callback of the reduce: one more when the selection of qIdx is the
\* question's correct_answer (questions[qIdx]?.correct_answer).
ScoreStep(acc, qIdx) ==
  IF Get(selected, qIdx) =
       (IF qIdx \in DOMAIN questions THEN questions[qIdx].correct_answer
        ELSE UNDEFINED)
  THEN acc + 1 ELSE acc

RECURSIVE Reduce(_, _)
Reduce(keys, acc) ==
  IF keys = <<>> THEN acc ELSE Reduce(Tail(keys), ScoreStep(acc, Head(keys)))

\* score, and the denominator rendered beside it.
scoreOverSelected == Reduce(ObjectKeys(selected), 0)
score == Reduce(ObjectKeys(revealed), 0)
scoreOutOf == Len(ObjectKeys(revealed))

\* ------------------------------------------------------------ AuthProvider
Tokens == {"t1", "t2"}
Users == {"u1", "u2"}
NotJSON == "<html>"

\* The body of a non-2xx response: JSON with a detail, JSON without one, or
\* text that is not JSON.
ErrorBodies == { ServerDetail, NULL, NotJSON }

\* What fetch() gives for a request: a rejection (arrived = FALSE), a non-2xx
\* response with one of the error bodies, or a 2xx response with its data
\* (the user of /me; access_token and user of the three login endpoints).
AuthResponses(kind) ==
  { [arrived |-> FALSE, ok |-> FALSE, body |-> NULL, data |-> NoData] }
  \cup { [arrived |-> TRUE, ok |-> FALSE, body |-> b, data |-> NoData] :
           b \in ErrorBodies }
  \cup { [arrived |-> TRUE, ok |-> TRUE, body |-> NULL,
          data |-> [access_token |-> IF kind = "me" THEN NULL ELSE t,
                    user |-> u]] : t \in Tokens, u \in Users }

AuthEvent(r, resp) ==
  EventWith("response", r.kind, r.vid, resp.arrived /\ resp.ok,
            IF resp.arrived /\ resp.ok THEN NoError
            ELSE [hasResponse |-> resp.arrived, detail |-> resp.body],
            resp.data)

\* The parameters of an empty fragment.
NoFragment == [access_token |-> NULL, error |-> NULL]

\* isAuthenticated: !!user
isAuthenticated == user # NULL

\* No AuthCallback view is mounted.
NoAuthCallback ==
  /\ hash = NoFragment
  /\ status = NULL /\ callbackError = "" /\ redirectScheduled = FALSE

\* HomePage and LoginPage at their useState defaults (or not mounted).
NoHomePage == searchLoading = FALSE /\ searched = FALSE /\ videos = <<>>
NoLoginPage == submitLoading = FALSE

\* No VideoPage is mounted (another route is shown).
NoVideoPage ==
  /\ videoId = NULL
  /\ activeTab = "transcript"
  /\ transcript = NULL /\ summary = NULL /\ quiz = NULL /\ pdfInfo = NULL
  /\ recommendations = <<>>
  /\ loadingRecommendations = FALSE
  /\ loadingTranscript = FALSE
  /\ loadingSummary = FALSE /\ loadingQuiz = FALSE /\ loadingPDF = FALSE

\* The session of a visitor who never logged in, after the page has loaded.
LoggedOut ==
  /\ storedToken = NULL /\ token = NULL /\ user = NULL
  /\ authLoading = FALSE /\ thrown = ""

\* The requests the [token] effect issues for a token: fetchUser() when there
\* is one.
fetchUserSkippingToken(tok) == <<>>
fetchUserWithoutTokenTest(tok) == << Req("me", tok, FALSE, FALSE) >>
fetchUserRequests(tok) ==
  IF tok # NULL THEN << Req("me", tok, FALSE, FALSE) >> ELSE <<>>

RECURSIVE AddAll(_, _)
AddAll(bag, reqs) ==
  IF reqs = <<>> THEN bag ELSE AddAll(Add(bag, Head(reqs)), Tail(reqs))

\* AuthProvider mounted by a page load: useState defaults (token read from
\* localStorage, loading true), then the [token] effect.  The requests of the
\* page that was open before are gone with it; cb are the requests the
\* mounted view has issued before the provider's effect runs.
MountAuthProvider(cb) ==
  /\ token' = storedToken
  /\ user' = NULL
  /\ authLoading' = (storedToken # NULL)
  /\ pending' = AddAll(EmptyBag, cb \o fetchUserRequests(storedToken))
  /\ sent' = cb \o fetchUserRequests(storedToken)
  /\ toasts' = <<>> /\ uncaught' = FALSE /\ thrown' = ""
  /\ searchLoading' = FALSE /\ searched' = FALSE /\ videos' = <<>>
  /\ submitLoading' = FALSE
  /\ UNCHANGED storedToken

\* A load of a page other than the OAuth callback: /login.
Load ==
  /\ MountAuthProvider(<<>>)
  /\ view' = "login"
  /\ event' = Event("load", "", "", TRUE, NoError)
  /\ hash' = NoFragment /\ status' = NULL /\ callbackError' = ""
  /\ redirectScheduled' = FALSE
  /\ UNCHANGED << inFlightCap, pageVars, toolVars, quizVars >>

\* login, signup up to the await of fetch.
StartLogin(kind) ==
  /\ NumPending < inFlightCap
  /\ pending' = Add(pending, Req(kind, "", FALSE, FALSE))
  /\ sent' = << Req(kind, "", FALSE, FALSE) >>
  /\ toasts' = <<>> /\ uncaught' = FALSE /\ thrown' = ""
  /\ event' = Event("call", kind, "", TRUE, NoError)
  /\ UNCHANGED << inFlightCap, pageVars, toolVars, quizVars, callbackVars,
                  storedToken, token, user, authLoading, view, homeVars >>

login == StartLogin("login") /\ UNCHANGED submitLoading
signup == StartLogin("signup") /\ UNCHANGED submitLoading

\* handleSubmit of LoginPage up to the await inside login or signup:
\* setError(''), setLoading(true), then the call.
handleSubmit(kind) == submitLoading' = TRUE /\ StartLogin(kind)

\* The submit button of the form: disabled={loading}.
ClickSubmit(kind) == view = "login" /\ ~submitLoading /\ handleSubmit(kind)

\* The message of the error a login operation throws for a response that is
\* not ok: `const error = await res.json()` throws a SyntaxError on a body
\* that is not JSON, otherwise new Error(error.detail || generic).
ParseErrorMessage == "Unexpected token < in JSON at position 0"
NetworkErrorMessage == "Failed to fetch"
NotOkMessage(body, generic) ==
  IF body = NotJSON THEN ParseErrorMessage
  ELSE IF body # NULL THEN body
  ELSE generic

\* What a login operation throws for a response, "" when it returns.
LoginThrows(resp, generic) ==
  IF ~resp.arrived THEN NetworkErrorMessage
  ELSE IF ~resp.ok THEN NotOkMessage(resp.body, generic)
  ELSE ""

\* The token a successful login operation hands to localStorage.setItem.
PersistedNothing(data) == storedToken
Persisted(data) == data.access_token

\* The session part of login / signup / loginWithGoogle resumed with the
\* response to r.  On success: localStorage.setItem, setToken, setUser, and
\* the [token] effect calls fetchUser() when the token has changed; extra
\* are the requests that precede it in `sent`.
FinishLogin(r, resp, generic) ==
  /\ BagIn(r, pending)
  /\ event' = AuthEvent(r, resp)
  /\ thrown' = LoginThrows(resp, generic)
  /\ toasts' = <<>> /\ uncaught' = FALSE
  /\ IF resp.arrived /\ resp.ok
     THEN /\ storedToken' = Persisted(resp.data)
          /\ token' = resp.data.access_token
          /\ user' = resp.data.user
          /\ IF resp.data.access_token # token
             THEN /\ pending' = AddAll(Remove(pending, r),
                                       fetchUserRequests(resp.data.access_token))
                  /\ sent' = fetchUserRequests(resp.data.access_token)
             ELSE /\ pending' = Remove(pending, r)
                  /\ sent' = <<>>
     ELSE /\ pending' = Remove(pending, r)
          /\ sent' = <<>>
          /\ UNCHANGED << storedToken, token, user >>
  /\ UNCHANGED << inFlightCap, pageVars, toolVars, quizVars, authLoading,
                  view, homeVars >>

\* login and signup resumed, and then handleSubmit of LoginPage: the error
\* login threw is shown by its catch block, and finally setLoading(false).
ResumeLogin(r, resp) ==
  /\ r.kind = "login" /\ FinishLogin(r, resp, "Login failed")
  /\ submitLoading' = FALSE
  /\ UNCHANGED callbackVars

ResumeSignup(r, resp) ==
  /\ r.kind = "signup" /\ FinishLogin(r, resp, "Signup failed")
  /\ submitLoading' = FALSE
  /\ UNCHANGED callbackVars

\* logout(): localStorage.removeItem('token'), setToken(null), setUser(null).
logoutKeepingStorage ==
  /\ storedToken' = storedToken
  /\ token' = NULL
  /\ user' = NULL

logout ==
  /\ storedToken' = NULL
  /\ token' = NULL
  /\ user' = NULL

\* The Logout buttons of the navigation bar, rendered when isAuthenticated.
\* When the token was set, the [token] effect then runs with no token and
\* sets loading to false.
ClickLogout ==
  /\ isAuthenticated
  /\ logout
  /\ authLoading' = IF token # NULL THEN FALSE ELSE authLoading
  /\ event' = Event("call", "logout", "", TRUE, NoError)
  /\ sent' = <<>> /\ toasts' = <<>> /\ uncaught' = FALSE /\ thrown' = ""
  /\ UNCHANGED << inFlightCap, pageVars, toolVars, quizVars, callbackVars,
                  pending, view, formVars >>

\* fetchUser resumed with the response to r: setUser on ok, logout() on a
\* response that is not ok, a log line on a rejection; finally
\* setLoading(false).
ResumeFetchUser(r, resp) ==
  /\ r.kind = "me" /\ BagIn(r, pending)
  /\ event' = AuthEvent(r, resp)
  /\ pending' = Remove(pending, r)
  /\ sent' = <<>> /\ toasts' = <<>> /\ uncaught' = FALSE /\ thrown' = ""
  /\ IF resp.arrived /\ resp.ok
     THEN /\ user' = resp.data.user
          /\ authLoading' = FALSE
          /\ UNCHANGED << storedToken, token >>
     ELSE IF resp.arrived
          THEN /\ logout
               /\ authLoading' = FALSE
          ELSE /\ authLoading' = FALSE
               /\ UNCHANGED << storedToken, token, user >>
  /\ UNCHANGED << inFlightCap, pageVars, toolVars, quizVars, callbackVars,
                  view, formVars >>

\* ------------------------------------------------------------ AuthCallback
\* params.get(name) of the fragment: null when the parameter is absent, its
\* value (possibly empty) otherwise.
AccessTokenParams == { NULL, "", "gtok" }
ErrorParams == { NULL, "", "access_denied" }
Fragments ==
  { [access_token |-> a, error |-> e] : a \in AccessTokenParams, e \in ErrorParams }

\* JavaScript truthiness of a string or null.
TruthyParam(x) == x # NULL /\ x # ""

\* The token exchange handleCallback starts for the fragment h.
CallbackRequestsIgnoringError(h) ==
  IF TruthyParam(h.access_token)
  THEN << Req("google", h.access_token, FALSE, FALSE) >> ELSE <<>>
CallbackRequests(h) ==
  IF ~TruthyParam(h.error) /\ TruthyParam(h.access_token)
  THEN << Req("google", h.access_token, FALSE, FALSE) >> ELSE <<>>

\* handleCallback, run by the mount effect of a new AuthCallback, up to its
\* return or its await.
handleCallback(h) ==
  /\ hash' = h
  /\ redirectScheduled' = FALSE
  /\ IF TruthyParam(h.error)
     THEN /\ status' = "error"
          /\ callbackError' = "Authentication was cancelled or failed"
     ELSE IF ~TruthyParam(h.access_token)
          THEN /\ status' = "error"
               /\ callbackError' = "No access token received"
          ELSE /\ status' = "processing"
               /\ callbackError' = ""

\* The browser comes back from the OAuth provider: a page load of
\* /auth/callback with the fragment h.  The effect of the view runs before
\* the provider's.
LoadCallback(h) ==
  /\ handleCallback(h)
  /\ MountAuthProvider(CallbackRequests(h))
  /\ view' = "callback"
  /\ event' = Event("load", "callback", "", TRUE, NoError)
  /\ UNCHANGED << inFlightCap, pageVars, toolVars, quizVars >>

\* loginWithGoogle resumed with the response to r, and then handleCallback:
\* setStatus('success') and the redirect timer, or the catch block.
ResumeLoginWithGoogleAlwaysSuccess(r, resp) ==
  /\ r.kind = "google" /\ FinishLogin(r, resp, "Google login failed")
  /\ status' = "success"
  /\ redirectScheduled' = TRUE
  /\ UNCHANGED << hash, callbackError, submitLoading >>

ResumeLoginWithGoogle(r, resp) ==
  /\ r.kind = "google" /\ FinishLogin(r, resp, "Google login failed")
  /\ IF LoginThrows(resp, "Google login failed") = ""
     THEN /\ status' = "success"
          /\ redirectScheduled' = TRUE
          /\ UNCHANGED callbackError
     ELSE /\ status' = "error"
          /\ callbackError' =
               IF LoginThrows(resp, "Google login failed") # ""
               THEN LoginThrows(resp, "Google login failed")
               ELSE "Failed to authenticate with Google"
          /\ UNCHANGED redirectScheduled
  /\ UNCHANGED << hash, submitLoading >>

\* The view is left by a navigation inside the application, navigate('/')
\* or, from "Try Again", navigate('/login'): its state is gone, the session
\* and the requests in flight stay.
LeaveCallback(op) ==
  /\ view' = IF op = "retry" THEN "login" ELSE "home"
  /\ hash' = NoFragment /\ status' = NULL /\ callbackError' = ""
  /\ redirectScheduled' = FALSE
  /\ event' = Event(op, "callback", "", TRUE, NoError)
  /\ sent' = <<>> /\ toasts' = <<>> /\ uncaught' = FALSE /\ thrown' = ""
  /\ UNCHANGED << inFlightCap, pageVars, toolVars, quizVars, pending,
                  storedToken, token, user, authLoading, formVars >>

\* setTimeout(() => navigate('/'), 2000) fires.
RedirectFires == redirectScheduled /\ LeaveCallback("redirect")

\* ------------------------------------------------------------ HomePage
\* The responses of POST /search/: a list of videos, empty or not, or a failure.
SearchResponses ==
  { [ok |-> TRUE, err |-> NoError, items |-> l] : l \in { <<>>, << "vA" >> } }
  \cup { [ok |-> FALSE, err |-> e, items |-> <<>>] : e \in Errors }

\* handleSearch up to its await: setLoading(true), setSearched(true).
handleSearch ==
  /\ NumPending < inFlightCap
  /\ searchLoading' = TRUE
  /\ searched' = TRUE
  /\ pending' = Add(pending, Req("search", "", FALSE, FALSE))
  /\ sent' = << Req("search", "", FALSE, FALSE) >>
  /\ toasts' = <<>> /\ uncaught' = FALSE
  /\ event' = Event("call", "search", "", TRUE, NoError)
  /\ UNCHANGED << inFlightCap, pageVars, toolVars, quizVars, authVars,
                  callbackVars, view, videos, submitLoading >>

\* SearchBar: the form calls onSearch for a query that is not blank, and its
\* button is disabled={loading || !query.trim()}.
ClickSearch == view = "home" /\ ~searchLoading /\ handleSearch

\* handleSearch resumed, with a finally block that runs on success only.
ResumeSearchWithoutFinally(r, resp) ==
  /\ r.kind = "search" /\ BagIn(r, pending)
  /\ event' = Event("response", r.kind, r.vid, resp.ok, resp.err)
  /\ uncaught' = FALSE
  /\ pending' = Remove(pending, r)
  /\ sent' = <<>>
  /\ IF resp.ok
     THEN /\ videos' = resp.items
          /\ searchLoading' = FALSE
          /\ toasts' = IF resp.items = <<>>
                       THEN << Toast("blank", "No videos found. Try a different query.") >>
                       ELSE <<>>
     ELSE /\ toasts' = << Toast("error",
                            ErrorMessage(resp.err, "Search failed. Check your API key.")) >>
          /\ UNCHANGED << videos, searchLoading >>
  /\ UNCHANGED << inFlightCap, pageVars, toolVars, quizVars, authVars,
                  callbackVars, view, searched, submitLoading >>

\* handleSearch resumed with the response to r: setVideos and the "no videos"
\* toast, or the error toast; finally setLoading(false).
ResumeSearch(r, resp) ==
  /\ r.kind = "search" /\ BagIn(r, pending)
  /\ event' = Event("response", r.kind, r.vid, resp.ok, resp.err)
  /\ uncaught' = FALSE
  /\ searchLoading' = FALSE
  /\ pending' = Remove(pending, r)
  /\ sent' = <<>>
  /\ IF resp.ok
     THEN /\ videos' = resp.items
          /\ toasts' = IF resp.items = <<>>
                       THEN << Toast("blank", "No videos found. Try a different query.") >>
                       ELSE <<>>
     ELSE /\ toasts' = << Toast("error",
                            ErrorMessage(resp.err, "Search failed. Check your API key.")) >>
          /\ UNCHANGED videos
  /\ UNCHANGED << inFlightCap, pageVars, toolVars, quizVars, authVars,
                  callbackVars, view, searched, submitLoading >>

\* "Try Again", rendered in the error state: navigate('/login').
ClickTryAgain == status = "error" /\ LeaveCallback("retry")

Init ==
  /\ InitVideoPage /\ InitContentTools /\ NoQuizCard
  /\ LoggedOut /\ NoAuthCallback /\ inFlightCap = MaxPending
  /\ view = "video" /\ NoHomePage /\ NoLoginPage

\* The video page driven through its rendered controls.
Next ==
  \/ \E i \in 1..MaxRecs : ClickRecommendation(i)
  \/ \E t \in Tabs : ClickTab(t)
  \/ ClickGenerateSummary
  \/ ClickGenerateQuiz
  \/ ClickGeneratePDF
  \/ \E r \in BagToSet(pending) : \E resp \in Responses(r.kind) :
       ResumeFetchTranscript(r, resp)
  \/ \E r \in BagToSet(pending) : \E resp \in Responses(r.kind) :
       ResumeSimilarVideos(r, resp)
  \/ \E r \in BagToSet(pending) : \E resp \in Responses(r.kind) :
       ResumeIndexVideo(r, resp)
  \/ \E r \in BagToSet(pending) : \E resp \in Responses(r.kind) :
       ResumeGenerateSummary(r, resp)
  \/ \E r \in BagToSet(pending) : \E resp \in Responses(r.kind) :
       ResumeGenerateQuiz(r, resp)
  \/ \E r \in BagToSet(pending) : \E resp \in Responses(r.kind) :
       ResumeGeneratePDF(r, resp)

Spec == Init /\ [][Next]_vars

\* A smaller set of responses: each kind of 2xx outcome once, and one failure.
BriefResponses(kind) ==
  { resp \in Responses(kind) :
      /\ resp.ok => resp.items \in { <<>>, << "img" >> } /\ resp.error = NULL
      /\ ~resp.ok => ~resp.err.hasResponse }

\* The handlers of the page and of its panel called directly, whatever the
\* buttons' disabled attributes say.
NextHandlers ==
  \/ handleGenerateSummary
  \/ handleGenerateQuiz
  \/ handleGeneratePDF
  \/ handleGenerateScript
  \/ handleGenerateSlides
  \/ handleGetImages
  \/ handleGenerateVoice
  \/ handleGenerateVideo
  \/ \E r \in BagToSet(pending) : \E resp \in BriefResponses(r.kind) :
       ResumeFetchTranscript(r, resp)
  \/ \E r \in BagToSet(pending) : \E resp \in BriefResponses(r.kind) :
       ResumeSimilarVideos(r, resp)
  \/ \E r \in BagToSet(pending) : \E resp \in BriefResponses(r.kind) :
       ResumeIndexVideo(r, resp)
  \/ \E r \in BagToSet(pending) : \E resp \in BriefResponses(r.kind) :
       ResumeGenerateSummary(r, resp)
  \/ \E r \in BagToSet(pending) : \E resp \in BriefResponses(r.kind) :
       ResumeGenerateQuiz(r, resp)
  \/ \E r \in BagToSet(pending) : \E resp \in BriefResponses(r.kind) :
       ResumeGeneratePDF(r, resp)
  \/ \E r \in BagToSet(pending) : \E resp \in BriefResponses(r.kind) :
       ResumeGenerateScript(r, resp)
  \/ \E r \in BagToSet(pending) : \E resp \in BriefResponses(r.kind) :
       ResumeGenerateSlides(r, resp)
  \/ \E r \in BagToSet(pending) : \E resp \in BriefResponses(r.kind) :
       ResumeGetImages(r, resp)
  \/ \E r \in BagToSet(pending) : \E resp \in BriefResponses(r.kind) :
       ResumeGenerateVoice(r, resp)
  \/ \E r \in BagToSet(pending) : \E resp \in BriefResponses(r.kind) :
       ResumeGenerateVideo(r, resp)

SpecHandlers == Init /\ [][NextHandlers]_vars

\* The page showing the quiz of its video, the state in which a QuizCard is
\* mounted: transcript and quiz loaded, the quiz tab active, nothing in flight.
InitQuizPage ==
  /\ videoId = "vA"
  /\ activeTab = "quiz"
  /\ transcript = "vA" /\ summary = NULL /\ quiz = "vA" /\ pdfInfo = NULL
  /\ recommendations = <<>>
  /\ loadingRecommendations = FALSE
  /\ loadingTranscript = FALSE
  /\ loadingSummary = FALSE /\ loadingQuiz = FALSE /\ loadingPDF = FALSE
  /\ pending = EmptyBag
  /\ sent = <<>> /\ toasts = <<>> /\ uncaught = FALSE
  /\ event = Event("tab", "", "", TRUE, NoError)

NextQuiz ==
  \/ \E q \in QIdx : \E o \in Options : ClickOption(q, o)
  \/ \E q \in QIdx : ClickCheckAnswer(q)

\* One life of a QuizCard.
InitQuiz ==
  /\ InitQuizPage /\ InitContentTools /\ InitQuizCard
  /\ LoggedOut /\ NoAuthCallback /\ inFlightCap = MaxPending
  /\ view = "video" /\ NoHomePage /\ NoLoginPage
SpecQuiz == InitQuiz /\ [][NextQuiz]_vars

\* The page of a video whose transcript has loaded and whose first
\* similar-videos request has been answered: the state in which the three
\* action buttons and the content-tools panel are rendered.
InitToolsPage ==
  /\ videoId = "vA"
  /\ activeTab = "transcript"
  /\ transcript = "vA" /\ summary = NULL /\ quiz = NULL /\ pdfInfo = NULL
  /\ recommendations = <<>>
  /\ loadingRecommendations = FALSE
  /\ loadingTranscript = FALSE
  /\ loadingSummary = FALSE /\ loadingQuiz = FALSE /\ loadingPDF = FALSE
  /\ pending = EmptyBag
  /\ sent = <<>> /\ toasts = <<>> /\ uncaught = FALSE
  /\ event = Event("response", "similar", "vA", TRUE, NoError)

InitTools ==
  /\ InitToolsPage /\ InitContentTools /\ NoQuizCard
  /\ LoggedOut /\ NoAuthCallback /\ inFlightCap = MaxInFlight
  /\ view = "video" /\ NoHomePage /\ NoLoginPage

\* The responses of the panel's requests: every outcome of a voice or video
\* request, each kind of outcome once for the others.
ToolResponses(kind) ==
  IF kind \in {"voice", "video"} THEN Responses(kind) ELSE BriefResponses(kind)

\* The generation actions of the page and of its panel, driven through
\* their buttons, with several requests in flight.
NextTools ==
  \/ ClickGenerateSummary
  \/ ClickGenerateQuiz
  \/ ClickGeneratePDF
  \/ ClickScript
  \/ ClickSlides
  \/ ClickImages
  \/ ClickVoice
  \/ ClickVideo
  \/ \E r \in BagToSet(pending) : \E resp \in ToolResponses(r.kind) :
       ResumeSimilarVideos(r, resp)
  \/ \E r \in BagToSet(pending) : \E resp \in ToolResponses(r.kind) :
       ResumeIndexVideo(r, resp)
  \/ \E r \in BagToSet(pending) : \E resp \in ToolResponses(r.kind) :
       ResumeGenerateSummary(r, resp)
  \/ \E r \in BagToSet(pending) : \E resp \in ToolResponses(r.kind) :
       ResumeGenerateQuiz(r, resp)
  \/ \E r \in BagToSet(pending) : \E resp \in ToolResponses(r.kind) :
       ResumeGeneratePDF(r, resp)
  \/ \E r \in BagToSet(pending) : \E resp \in ToolResponses(r.kind) :
       ResumeGenerateScript(r, resp)
  \/ \E r \in BagToSet(pending) : \E resp \in ToolResponses(r.kind) :
       ResumeGenerateSlides(r, resp)
  \/ \E r \in BagToSet(pending) : \E resp \in ToolResponses(r.kind) :
       ResumeGetImages(r, resp)
  \/ \E r \in BagToSet(pending) : \E resp \in ToolResponses(r.kind) :
       ResumeGenerateVoice(r, resp)
  \/ \E r \in BagToSet(pending) : \E resp \in ToolResponses(r.kind) :
       ResumeGenerateVideo(r, resp)

SpecTools == InitTools /\ [][NextTools]_vars

\* The page of a video whose summary is stored and whose recommendations
\* have been refreshed: the panel's five buttons are enabled.
InitPanelPage ==
  /\ videoId = "vA"
  /\ activeTab = "summary"
  /\ transcript = "vA" /\ summary = "vA" /\ quiz = NULL /\ pdfInfo = NULL
  /\ recommendations = <<>>
  /\ loadingRecommendations = FALSE
  /\ loadingTranscript = FALSE
  /\ loadingSummary = FALSE /\ loadingQuiz = FALSE /\ loadingPDF = FALSE
  /\ pending = EmptyBag
  /\ sent = <<>> /\ toasts = <<>> /\ uncaught = FALSE
  /\ event = Event("response", "similarAfterIndex", "vA", TRUE, NoError)

InitPanel ==
  /\ InitPanelPage /\ InitContentTools /\ NoQuizCard
  /\ LoggedOut /\ NoAuthCallback /\ inFlightCap = MaxInFlight
  /\ view = "video" /\ NoHomePage /\ NoLoginPage

\* The content-tools panel alone, driven through its five buttons.
NextPanel ==
  \/ ClickScript
  \/ ClickSlides
  \/ ClickImages
  \/ ClickVoice
  \/ ClickVideo
  \/ \E r \in BagToSet(pending) : \E resp \in ToolResponses(r.kind) :
       ResumeGenerateScript(r, resp)
  \/ \E r \in BagToSet(pending) : \E resp \in ToolResponses(r.kind) :
       ResumeGenerateSlides(r, resp)
  \/ \E r \in BagToSet(pending) : \E resp \in ToolResponses(r.kind) :
       ResumeGetImages(r, resp)
  \/ \E r \in BagToSet(pending) : \E resp \in ToolResponses(r.kind) :
       ResumeGenerateVoice(r, resp)
  \/ \E r \in BagToSet(pending) : \E resp \in ToolResponses(r.kind) :
       ResumeGenerateVideo(r, resp)

SpecPanel == InitPanel /\ [][NextPanel]_vars

\* The session after a page load, with or without a persisted token.
InitAuth ==
  /\ NoVideoPage /\ InitContentTools /\ NoQuizCard /\ NoAuthCallback
  /\ view = "login" /\ NoHomePage /\ NoLoginPage
  /\ inFlightCap = MaxInFlight
  /\ storedToken \in Tokens \cup {NULL}
  /\ token = storedToken /\ user = NULL
  /\ authLoading = (storedToken # NULL)
  /\ thrown = ""
  /\ pending = AddAll(EmptyBag, fetchUserRequests(storedToken))
  /\ sent = fetchUserRequests(storedToken)
  /\ toasts = <<>> /\ uncaught = FALSE
  /\ event = Event("load", "", "", TRUE, NoError)

DeliverFetchUser ==
  \E r \in BagToSet(pending) : \E resp \in AuthResponses(r.kind) :
    ResumeFetchUser(r, resp)

\* The session controller and the OAuth callback view.
NextAuth ==
  \/ Load
  \/ \E h \in Fragments : LoadCallback(h)
  \/ login
  \/ signup
  \/ ClickLogout
  \/ DeliverFetchUser
  \/ \E r \in BagToSet(pending) : \E resp \in AuthResponses(r.kind) :
       ResumeLogin(r, resp)
  \/ \E r \in BagToSet(pending) : \E resp \in AuthResponses(r.kind) :
       ResumeSignup(r, resp)
  \/ \E r \in BagToSet(pending) : \E resp \in AuthResponses(r.kind) :
       ResumeLoginWithGoogle(r, resp)
  \/ RedirectFires
  \/ ClickTryAgain

SpecAuth == InitAuth /\ [][NextAuth]_vars

\* Every current-user request is answered or fails: fetch settles.
SpecAuthLive == SpecAuth /\ WF_vars(DeliverFetchUser)

\* The page from its mount with several requests in flight.
InitOverlap ==
  /\ InitVideoPage /\ InitContentTools /\ NoQuizCard
  /\ LoggedOut /\ NoAuthCallback /\ inFlightCap = MaxInFlight
  /\ view = "video" /\ NoHomePage /\ NoLoginPage

\* The two recommendation fetchers and what starts them: the transcript
\* fetch of the mount and of a route change, and Generate Summary.
NextOverlap ==
  \/ \E i \in 1..MaxRecs : ClickRecommendation(i)
  \/ ClickGenerateSummary
  \/ \E r \in BagToSet(pending) : \E resp \in Responses(r.kind) :
       ResumeFetchTranscript(r, resp)
  \/ \E r \in BagToSet(pending) : \E resp \in Responses(r.kind) :
       ResumeSimilarVideos(r, resp)
  \/ \E r \in BagToSet(pending) : \E resp \in Responses(r.kind) :
       ResumeIndexVideo(r, resp)
  \/ \E r \in BagToSet(pending) : \E resp \in Responses(r.kind) :
       ResumeGenerateSummary(r, resp)

SpecOverlap == InitOverlap /\ [][NextOverlap]_vars

\* ------------------------------------------------- views that are unmounted
\* The user leaves /video/:videoId for another route: the VideoPage and its
\* children are unmounted and their state is gone; no request is aborted
\* (api.js passes no AbortSignal and the page has no effect cleanup).
UnmountVideoPage ==
  /\ videoId # NULL
  /\ videoId' = NULL /\ activeTab' = "transcript"
  /\ transcript' = NULL /\ summary' = NULL /\ quiz' = NULL /\ pdfInfo' = NULL
  /\ recommendations' = <<>> /\ loadingRecommendations' = FALSE
  /\ loadingTranscript' = FALSE /\ loadingSummary' = FALSE
  /\ loadingQuiz' = FALSE /\ loadingPDF' = FALSE
  /\ toolsTab' = NULL /\ loading' = [k \in ToolKeys |-> FALSE]
  /\ script' = NULL /\ slides' = NULL /\ images' = <<>>
  /\ voice' = NULL /\ video' = NULL
  /\ view' = "home"
  /\ event' = Event("unmount", "video", "", TRUE, NoError)
  /\ sent' = <<>> /\ toasts' = <<>> /\ uncaught' = FALSE
  /\ UNCHANGED << inFlightCap, authVars, callbackVars, formVars, quizVars, pending >>

\* The user leaves /auth/callback through the navigation bar while the token
\* exchange is pending.
NavigateAwayFromCallback == status = "processing" /\ LeaveCallback("navigate")

PageKinds ==
  {"transcript", "similar", "index", "similarAfterIndex", "summary", "quiz", "pdf"}

\* The toast a handler of the page raises when its request resolves:
\* react-hot-toast is mounted at the root (main.jsx), outside every view.
ToastOnResponse(kind, resp) ==
  CASE kind = "transcript" ->
         IF resp.ok THEN << Toast("success", "Transcript loaded!") >>
         ELSE << Toast("error", ErrorMessage(resp.err, "Failed to fetch transcript.")) >>
    [] kind = "summary" ->
         IF resp.ok THEN << Toast("success", "Summary generated!") >>
         ELSE << Toast("error", ErrorMessage(resp.err, "Summary generation failed.")) >>
    [] kind = "quiz" ->
         IF resp.ok THEN << Toast("success", "Quiz generated!") >>
         ELSE << Toast("error", ErrorMessage(resp.err, "Quiz generation failed.")) >>
    [] kind = "pdf" ->
         IF resp.ok THEN << Toast("success", "PDF generated!") >>
         ELSE << Toast("error", ErrorMessage(resp.err, "PDF generation failed.")) >>
    [] OTHER -> <<>>

\* The request a handler of the page issues when its request r has succeeded:
\* fetchRecommendationsOnly(), handleIndexAndFetchRecommendations() and the
\* getSimilarVideos call after indexVideo, with the videoId of r's closure.
FollowUpOnResponse(r, resp) ==
  CASE r.kind = "transcript" /\ resp.ok -> << TranscriptFollowUp(r.vid) >>
    [] r.kind = "summary" /\ resp.ok -> << Req("index", r.vid, FALSE, FALSE) >>
    [] r.kind = "index" /\ resp.ok -> << Req("similarAfterIndex", r.vid, FALSE, FALSE) >>
    [] OTHER -> <<>>

\* A handler of the unmounted VideoPage resumed with the response to r: its
\* state setters do nothing on the unmounted component; the toast calls and
\* the calls of the recommendation fetchers run as on a mounted page.
ResumeUnmounted(r, resp) ==
  /\ videoId = NULL
  /\ r.kind \in PageKinds /\ BagIn(r, pending)
  /\ event' = Event("response", r.kind, r.vid, resp.ok, resp.err)
  /\ uncaught' = FALSE
  /\ toasts' = ToastOnResponse(r.kind, resp)
  /\ pending' = AddAll(Remove(pending, r), FollowUpOnResponse(r, resp))
  /\ sent' = FollowUpOnResponse(r, resp)
  /\ UNCHANGED << inFlightCap, sessionVars, pageVars, toolVars, quizVars >>

\* loginWithGoogle resumed after the AuthCallback view was unmounted: the
\* session is stored by the provider, setStatus and setError do nothing, and
\* setTimeout(() => navigate('/'), 2000) is still called on success.
ResumeLoginWithGoogleUnmounted(r, resp) ==
  /\ status = NULL
  /\ r.kind = "google" /\ FinishLogin(r, resp, "Google login failed")
  /\ redirectScheduled' =
       IF LoginThrows(resp, "Google login failed") = "" THEN TRUE
       ELSE redirectScheduled
  /\ UNCHANGED << hash, status, callbackError, submitLoading >>

\* A view with a request in flight: the video page after its mount, or the
\* OAuth callback view waiting for the token exchange.
InitUnmount ==
  /\ InitContentTools /\ NoQuizCard /\ LoggedOut
  /\ NoHomePage /\ NoLoginPage
  /\ inFlightCap = MaxPending
  /\ \/ InitVideoPage /\ NoAuthCallback /\ view = "video"
     \/ /\ NoVideoPage /\ view = "callback"
        /\ hash = [access_token |-> "gtok", error |-> NULL]
        /\ status = "processing" /\ callbackError = ""
        /\ redirectScheduled = FALSE
        /\ pending = SetToBag({ Req("google", "gtok", FALSE, FALSE) })
        /\ sent = << Req("google", "gtok", FALSE, FALSE) >>
        /\ toasts = <<>> /\ uncaught = FALSE
        /\ event = Event("load", "callback", "", TRUE, NoError)

\* The two views, left at any moment, with their requests answered before or
\* after that.
NextUnmount ==
  \/ UnmountVideoPage
  \/ NavigateAwayFromCallback
  \/ ClickGenerateSummary
  \/ ClickGenerateQuiz
  \/ ClickGeneratePDF
  \/ \E r \in BagToSet(pending) : \E resp \in Responses(r.kind) :
       videoId # NULL /\ ResumeFetchTranscript(r, resp)
  \/ \E r \in BagToSet(pending) : \E resp \in Responses(r.kind) :
       videoId # NULL /\ ResumeSimilarVideos(r, resp)
  \/ \E r \in BagToSet(pending) : \E resp \in Responses(r.kind) :
       videoId # NULL /\ ResumeIndexVideo(r, resp)
  \/ \E r \in BagToSet(pending) : \E resp \in Responses(r.kind) :
       videoId # NULL /\ ResumeGenerateSummary(r, resp)
  \/ \E r \in BagToSet(pending) : \E resp \in Responses(r.kind) :
       videoId # NULL /\ ResumeGenerateQuiz(r, resp)
  \/ \E r \in BagToSet(pending) : \E resp \in Responses(r.kind) :
       videoId # NULL /\ ResumeGeneratePDF(r, resp)
  \/ \E r \in BagToSet(pending) : \E resp \in Responses(r.kind) :
       ResumeUnmounted(r, resp)
  \/ \E r \in BagToSet(pending) : \E resp \in AuthResponses(r.kind) :
       status = "processing" /\ ResumeLoginWithGoogle(r, resp)
  \/ \E r \in BagToSet(pending) : \E resp \in AuthResponses(r.kind) :
       ResumeLoginWithGoogleUnmounted(r, resp)
  \/ DeliverFetchUser
  \/ RedirectFires

SpecUnmount == InitUnmount /\ [][NextUnmount]_vars

\* ------------------------------------------------ every view with a flag
\* One of the three views that own loading flags, right after it is mounted:
\* the video page (its transcript request in flight), HomePage or LoginPage.
InitLoading ==
  /\ InitContentTools /\ NoQuizCard /\ LoggedOut /\ NoAuthCallback
  /\ NoHomePage /\ NoLoginPage
  /\ inFlightCap = MaxPending
  /\ \/ InitVideoPage /\ view = "video"
     \/ /\ NoVideoPage /\ view \in {"home", "login"}
        /\ pending = EmptyBag /\ sent = <<>> /\ toasts = <<>>
        /\ uncaught = FALSE
        /\ event = Event("mount", "", "", TRUE, NoError)

\* The continuation of the handler that waits for a request of this kind.
Deliver(kind) ==
  \E r \in BagToSet(pending) :
    /\ r.kind = kind
    /\ \/ \E resp \in BriefResponses(kind) :
            \/ ResumeFetchTranscript(r, resp)
            \/ ResumeSimilarVideos(r, resp)
            \/ ResumeIndexVideo(r, resp)
            \/ ResumeGenerateSummary(r, resp)
            \/ ResumeGenerateQuiz(r, resp)
            \/ ResumeGeneratePDF(r, resp)
            \/ ResumeGenerateScript(r, resp)
            \/ ResumeGenerateSlides(r, resp)
            \/ ResumeGetImages(r, resp)
            \/ ResumeGenerateVoice(r, resp)
            \/ ResumeGenerateVideo(r, resp)
       \/ \E resp \in SearchResponses : ResumeSearch(r, resp)
       \/ \E resp \in AuthResponses(kind) :
            \/ ResumeLogin(r, resp)
            \/ ResumeSignup(r, resp)
            \/ ResumeFetchUser(r, resp)

RequestKinds ==
  PageKinds \cup ToolKeys \cup {"search", "login", "signup", "me"}

\* The controls that start a request under a loading flag, and the
\* responses.
NextLoading ==
  \/ ClickGenerateSummary
  \/ ClickGenerateQuiz
  \/ ClickGeneratePDF
  \/ ClickScript
  \/ ClickSlides
  \/ ClickImages
  \/ ClickVoice
  \/ ClickVideo
  \/ ClickSearch
  \/ ClickSubmit("login")
  \/ ClickSubmit("signup")
  \/ \E r \in BagToSet(pending) : \E resp \in BriefResponses(r.kind) :
       ResumeFetchTranscript(r, resp)
  \/ \E r \in BagToSet(pending) : \E resp \in BriefResponses(r.kind) :
       ResumeSimilarVideos(r, resp)
  \/ \E r \in BagToSet(pending) : \E resp \in BriefResponses(r.kind) :
       ResumeIndexVideo(r, resp)
  \/ \E r \in BagToSet(pending) : \E resp \in BriefResponses(r.kind) :
       ResumeGenerateSummary(r, resp)
  \/ \E r \in BagToSet(pending) : \E resp \in BriefResponses(r.kind) :
       ResumeGenerateQuiz(r, resp)
  \/ \E r \in BagToSet(pending) : \E resp \in BriefResponses(r.kind) :
       ResumeGeneratePDF(r, resp)
  \/ \E r \in BagToSet(pending) : \E resp \in BriefResponses(r.kind) :
       ResumeGenerateScript(r, resp)
  \/ \E r \in BagToSet(pending) : \E resp \in BriefResponses(r.kind) :
       ResumeGenerateSlides(r, resp)
  \/ \E r \in BagToSet(pending) : \E resp \in BriefResponses(r.kind) :
       ResumeGetImages(r, resp)
  \/ \E r \in BagToSet(pending) : \E resp \in BriefResponses(r.kind) :
       ResumeGenerateVoice(r, resp)
  \/ \E r \in BagToSet(pending) : \E resp \in BriefResponses(r.kind) :
       ResumeGenerateVideo(r, resp)
  \/ \E r \in BagToSet(pending) : \E resp \in SearchResponses :
       ResumeSearch(r, resp)
  \/ \E r \in BagToSet(pending) : \E resp \in AuthResponses(r.kind) :
       ResumeLogin(r, resp)
  \/ \E r \in BagToSet(pending) : \E resp \in AuthResponses(r.kind) :
       ResumeSignup(r, resp)
  \/ DeliverFetchUser

\* Every request in flight is answered or fails: the browser settles each
\* fetch, whatever else is pending.
SpecLoading ==
  /\ InitLoading /\ [][NextLoading]_vars
  /\ \A k \in RequestKinds : WF_vars(Deliver(k))

\* ------------------------------------------------------------ claims
\* The prerequisite of a request kind, as the handlers test it.
PrerequisiteHolds(kind) ==
  IF kind \in {"summary", "quiz"} THEN transcript # NULL
  ELSE IF kind \in ToolKeys THEN summary # NULL
  ELSE IF kind = "pdf" THEN summary # NULL \/ quiz # NULL
  ELSE TRUE

IsErrorToast(t) == Len(t) = 1 /\ t[1].level = "error"

\* C1: no request is dispatched before its prerequisite exists: a step sends
\* a summary or quiz request only from a state with a transcript, a
\* script/slides/images/voice/video request only from a state with a summary,
\* a PDF request only from a state with a summary or a quiz; a handler called
\* without its prerequisite sends nothing and raises one error notification.
C1_NoRequestBeforePrerequisite ==
  [][ /\ \A i \in 1..Len(sent') : PrerequisiteHolds(sent'[i].kind)
      /\ (event'.op = "call" /\ ~PrerequisiteHolds(event'.kind))
           => (sent' = <<>> /\ pending' = pending /\ IsErrorToast(toasts')) ]_vars

\* A tool handler was called without a summary and refused, after a quiz
\* request (whose prerequisite, the transcript, is stored) went out.
C1_Witness ==
  /\ event.op = "call" /\ event.kind \in ToolKeys
  /\ summary = NULL /\ transcript # NULL /\ quiz # NULL
  /\ sent = <<>> /\ IsErrorToast(toasts)

\* C2: the stored recommendation list never contains the video being viewed.
C2_RecommendationsExcludeCurrentVideo ==
  \A i \in 1..Len(recommendations) : recommendations[i] # videoId

\* C3: a revealed question stays revealed, and no step (in particular no
\* handleSelect call) changes its stored selection.
C3_RevealedIsTerminal ==
  [][ \A q \in QIdx :
        IsRevealed(revealed, q)
          => (IsRevealed(revealed', q) /\ Get(selected', q) = Get(selected, q)) ]_vars

\* handleSelect was just called on a revealed question with an option other
\* than the stored one.
C3_Witness ==
  /\ quizEvent.op = "handleSelect"
  /\ IsRevealed(revealed, quizEvent.q)
  /\ quizEvent.opt # Get(selected, quizEvent.q)

RevealedSet == { q \in QIdx : IsRevealed(revealed, q) }
CorrectRevealedSet ==
  { q \in RevealedSet : Get(selected, q) = questions[q].correct_answer }

\* C4: the score is the number of revealed questions whose stored selection
\* is the question's correct_answer, and the denominator is the number of
\* revealed questions; unrevealed questions do not count.
C4_ScoreCountsRevealedCorrect ==
  /\ score = Cardinality(CorrectRevealedSet)
  /\ scoreOutOf = Cardinality(RevealedSet)

\* Two of the questions revealed, one of them correct, and another question
\* selected correctly but not revealed: 1 / 2.
C4_Witness ==
  /\ score = 1 /\ scoreOutOf = 2
  /\ \E q \in QIdx : /\ ~IsRevealed(revealed, q)
                     /\ Get(selected, q) = questions[q].correct_answer

\* C5: handleSelect(q, opt) on a question that is not revealed stores opt for
\* q and changes no other selection and no reveal flag; with the option that
\* is already stored it changes nothing.
C5_SelectUpdatesOnlyThatQuestion ==
  [][ (quizEvent'.op = "handleSelect" /\ ~IsRevealed(revealed, quizEvent'.q))
        => /\ Get(selected', quizEvent'.q) = quizEvent'.opt
           /\ \A k \in QIdx \ {quizEvent'.q} : Get(selected', k) = Get(selected, k)
           /\ revealed' = revealed
           /\ (Get(selected, quizEvent'.q) = quizEvent'.opt => selected' = selected) ]_vars

\* handleSelect was just called on an unrevealed question while another
\* question holds a selection and a third is revealed.
C5_Witness ==
  /\ quizEvent.op = "handleSelect"
  /\ ~IsRevealed(revealed, quizEvent.q)
  /\ Get(selected, quizEvent.q) = quizEvent.opt
  /\ \E k \in QIdx \ {quizEvent.q} : Truthy(Get(selected, k))
  /\ RevealedSet # {}

\* C6: handleGeneratePDF called with neither summary nor quiz sends no
\* request, leaves loadingPDF and pdfInfo unchanged and raises an error
\* notification.
C6_PDFRejectedWithoutSummaryAndQuiz ==
  [][ (event'.op = "call" /\ event'.kind = "pdf" /\ summary = NULL /\ quiz = NULL)
        => /\ sent' = <<>> /\ pending' = pending
           /\ loadingPDF' = loadingPDF /\ pdfInfo' = pdfInfo
           /\ toasts' = << Toast("error", "Generate a summary or quiz first!") >> ]_vars

\* handleGeneratePDF was just called with a transcript but no summary and no
\* quiz.
C6_Witness ==
  /\ event.op = "call" /\ event.kind = "pdf"
  /\ transcript # NULL /\ summary = NULL /\ quiz = NULL
  /\ IsErrorToast(toasts) /\ ~loadingPDF

Sends(s, kind) == \E i \in 1..Len(s) : s[i].kind = kind
IsResponse(e, kind) == e.op = "response" /\ e.kind = kind

\* C7: an index request is sent only by the step that handles a successful
\* summary response; a successful transcript response sends one
\* similar-videos request and no index request; a failed summary response
\* sends nothing; the follow-up's similar-videos request is sent only by the
\* step that handles a successful index response.
C7_IndexOnlyAfterSummarySuccess ==
  [][ /\ Sends(sent', "index") => (IsResponse(event', "summary") /\ event'.ok)
      /\ (IsResponse(event', "transcript") /\ event'.ok)
           => sent' = << Req("similar", event'.vid, FALSE, FALSE) >>
      /\ (IsResponse(event', "summary") /\ ~event'.ok) => sent' = <<>>
      /\ Sends(sent', "similarAfterIndex")
           => (IsResponse(event', "index") /\ event'.ok) ]_vars

\* The index request of a summary has succeeded and its similar-videos
\* request has just been sent.
C7_Witness ==
  /\ IsResponse(event, "index") /\ event.ok
  /\ summary # NULL
  /\ sent = << Req("similarAfterIndex", event.vid, FALSE, FALSE) >>

\* C8: the step that handles a summary response sets loadingSummary to false
\* (the index request it sends is still in flight), and no index or
\* similar-videos response, successful or failed, changes summary or
\* loadingSummary.
C8_IndexingDoesNotBlockOrClearSummary ==
  [][ /\ IsResponse(event', "summary") => ~loadingSummary'
      /\ (event'.op = "response"
          /\ event'.kind \in {"index", "similar", "similarAfterIndex"})
           => (summary' = summary /\ loadingSummary' = loadingSummary) ]_vars

\* The index request of a stored summary has just failed.
C8_Witness ==
  /\ IsResponse(event, "index") /\ ~event.ok
  /\ summary # NULL /\ ~loadingSummary

\* C9: a failed response leaves transcript, summary, quiz, pdfInfo and the
\* recommendation list as they were.
C9_FailureKeepsStoredResults ==
  [][ (event'.op = "response" /\ ~event'.ok)
        => /\ transcript' = transcript /\ summary' = summary /\ quiz' = quiz
           /\ pdfInfo' = pdfInfo /\ recommendations' = recommendations ]_vars

GenericMessages ==
  { "Failed to fetch transcript.", "Summary generation failed.",
    "Quiz generation failed.", "PDF generation failed." }

\* One error notification: the server's detail when the failed response has
\* one, a generic message otherwise.
OneFailureToast(t, err) ==
  /\ IsErrorToast(t)
  /\ IF err.hasResponse /\ err.detail # NULL
     THEN t[1].msg = err.detail
     ELSE t[1].msg \in GenericMessages

ActionKinds == {"summary", "quiz", "pdf"} \cup ToolKeys
FlagOf(kind) ==
  CASE kind = "summary" -> loadingSummary
    [] kind = "quiz" -> loadingQuiz
    [] kind = "pdf" -> loadingPDF
    [] OTHER -> loading[kind]
ResultOf(kind) ==
  CASE kind = "summary" -> << summary >>
    [] kind = "quiz" -> << quiz >>
    [] kind = "pdf" -> << pdfInfo >>
    [] kind = "script" -> << script >>
    [] kind = "slides" -> << slides >>
    [] kind = "images" -> images
    [] kind = "voice" -> << voice >>
    [] kind = "video" -> << video >>
InFlight(bag, kind) == \E r \in BagToSet(bag) : r.kind = kind

\* C11: a step changes the loading flag or the stored result of a generation
\* action only when it is the dispatch or the resolution of that action's
\* own request, whatever else is in flight; loading[key] of the content
\* tools is true exactly while a request of that tool is in flight, and so
\* are the three loading flags of the page.
C11_ActionsAreIndependent ==
  [][ /\ \A k \in ActionKinds :
           (FlagOf(k)' # FlagOf(k) \/ ResultOf(k)' # ResultOf(k))
             => (event'.op \in {"call", "response"} /\ event'.kind = k)
      /\ \A k \in ToolKeys : loading'[k] <=> InFlight(pending', k)
      /\ \A k \in {"summary", "quiz", "pdf"} : FlagOf(k)' <=> InFlight(pending', k)
    ]_vars

\* A voice request has just been answered while a summary request, sent
\* before or after it, is still loading and the script result is stored.
C11_Witness ==
  /\ IsResponse(event, "voice")
  /\ loadingSummary /\ ~loading["voice"]
  /\ script # NULL

ToolSucceeded(e, t) ==
  /\ e.op = "response" /\ e.kind \in ToolKeys
  /\ Len(t) = 1 /\ t[1].level = "success"

\* C12: the resolution of a tool's request never changes the active tab of
\* the panel; a successful one stores the result in that tool's slot whatever
\* the active tab is, also when another tool was selected in the meantime;
\* at most one result panel is rendered, that of the active tab, and only
\* with its result stored.
C12_ResultStoredWhateverTheTab ==
  [][ /\ (event'.op = "response" /\ event'.kind \in ToolKeys)
           => toolsTab' = toolsTab
      /\ \A k \in ToolKeys \ {"images"} :
           (ToolSucceeded(event', toasts') /\ event'.kind = k)
             => ResultOf(k)' = << event'.vid >>
      /\ Cardinality({ k \in ToolKeys : PanelRendered(k)' }) <= 1
      /\ \A k \in ToolKeys :
           PanelRendered(k)' => (toolsTab' = k /\ ResultOf(k)' \notin { <<>>, << NULL >> })
    ]_vars

\* The script request has just succeeded while the voice tab, selected after
\* it, is the active one and shows nothing: the script is stored and no
\* panel is rendered.
C12_Witness ==
  /\ ToolSucceeded(event, toasts) /\ event.kind = "script"
  /\ toolsTab = "voice" /\ loading["voice"]
  /\ script # NULL
  /\ \A k \in ToolKeys : ~PanelRendered(k)

DomainFailure(e) ==
  /\ e.op = "response" /\ e.kind \in {"voice", "video"}
  /\ e.ok /\ e.err # NoError

\* C13: a 2xx voice or video response with success = false leaves voice and
\* video as they were, raises one error notification whose message is the
\* response's error text (voice) or the domain-failure message, not the
\* message of a failed request, and sets the tool's loading flag to false;
\* voice and video change only on a 2xx response with success = true.
C13_DomainFailureIsAFailure ==
  [][ /\ DomainFailure(event')
           => /\ voice' = voice /\ video' = video
              /\ ~loading'[event'.kind]
              /\ IsErrorToast(toasts')
              /\ toasts'[1].msg =
                   IF event'.kind = "voice" /\ event'.err.detail # NULL
                   THEN event'.err.detail
                   ELSE IF event'.kind = "voice" THEN "Voice generation failed"
                   ELSE "Video generation failed"
      /\ \A k \in {"voice", "video"} :
           ResultOf(k)' # ResultOf(k)
             => (IsResponse(event', k) /\ event'.ok /\ event'.err = NoError)
    ]_vars

\* A voice response with success = false and an error text has just been
\* handled: nothing is stored and the text is the notification.
C13_Witness ==
  /\ DomainFailure(event) /\ event.kind = "voice"
  /\ voice = NULL /\ ~loading["voice"]
  /\ toasts = << Toast("error", "domain error") >>

LoginKinds == {"login", "signup", "google"}

\* C14: when login, signup or loginWithGoogle returns for a 2xx response
\* {access_token, user}, the persisted token and the in-memory token are
\* access_token, the user is the response's user, the session is
\* authenticated and nothing is thrown: the same for the three operations.
C14_LoginStoresSession ==
  [][ (event'.op = "response" /\ event'.kind \in LoginKinds /\ event'.ok)
        => /\ storedToken' = event'.data.access_token
           /\ token' = event'.data.access_token
           /\ user' = event'.data.user
           /\ isAuthenticated'
           /\ thrown' = "" ]_vars

\* The token exchange of the OAuth callback has just returned: its token is
\* persisted and in memory, its user is stored, and the [token] effect has
\* sent the current-user request for the new token.
C14_Witness ==
  /\ IsResponse(event, "google") /\ event.ok
  /\ storedToken = event.data.access_token /\ token = storedToken
  /\ user = event.data.user
  /\ sent = << Req("me", token, FALSE, FALSE) >>

GenericPhrase(kind) ==
  CASE kind = "login" -> "Login failed"
    [] kind = "signup" -> "Signup failed"
    [] kind = "google" -> "Google login failed"

\* C15: when the login or signup request is answered with a non-2xx
\* response, the operation throws an error whose message is the detail of
\* the body when it has one and the generic phrase otherwise (also when the
\* body is not JSON), and the persisted token, the token and the user stay
\* as they were.
C15_NotOkThrowsDetailOrGeneric ==
  [][ \A k \in {"login", "signup"} :
        (IsResponse(event', k) /\ ~event'.ok /\ event'.err.hasResponse)
          => /\ thrown' = IF event'.err.detail = ServerDetail
                          THEN ServerDetail ELSE GenericPhrase(k)
             /\ storedToken' = storedToken /\ token' = token /\ user' = user
    ]_vars

\* C16: logout removes the persisted token and sets token and user to null
\* in the step of the call, sends no request and leaves the requests in
\* flight alone; the session is unauthenticated after it.
C16_LogoutClearsSession ==
  [][ (event'.op = "call" /\ event'.kind = "logout")
        => /\ storedToken' = NULL /\ token' = NULL /\ user' = NULL
           /\ ~isAuthenticated'
           /\ sent' = <<>> /\ pending' = pending ]_vars

\* logout has just been called while a request was in flight.
C16_Witness ==
  /\ event.op = "call" /\ event.kind = "logout"
  /\ NumPending > 0
  /\ storedToken = NULL /\ token = NULL /\ user = NULL

IsLoad(e) == e.op = "load"

\* C17: a page load that finds a persisted token sends a current-user
\* request carrying that token and keeps loading true; a current-user
\* response that is not ok ends in the logged-out state, one that is ok
\* stores its user, and every outcome, a rejection too, sets loading to
\* false; after such a load loading eventually becomes false.
C17_PersistedTokenIsValidated ==
  /\ [][ /\ (IsLoad(event') /\ storedToken # NULL)
              => /\ \E i \in 1..Len(sent') :
                      sent'[i] = Req("me", storedToken, FALSE, FALSE)
                 /\ InFlight(pending', "me")
         /\ IsResponse(event', "me")
              => /\ ~authLoading'
                 /\ event'.ok => (user' = event'.data.user /\ token' = token
                                  /\ storedToken' = storedToken)
                 /\ (~event'.ok /\ event'.err.hasResponse)
                      => (storedToken' = NULL /\ token' = NULL /\ user' = NULL)
                 /\ (~event'.ok /\ ~event'.err.hasResponse)
                      => (storedToken' = storedToken /\ token' = token
                          /\ user' = user)
       ]_vars
  /\ (IsLoad(event) /\ token # NULL) ~> ~authLoading

\* A current-user request sent for the persisted token has just been
\* answered with a response that is not ok.
C17_Witness ==
  /\ IsResponse(event, "me") /\ ~event.ok /\ event.err.hasResponse
  /\ event.vid \in Tokens
  /\ storedToken = NULL /\ token = NULL /\ user = NULL /\ ~authLoading

\* C18: a page load that finds no persisted token, and so the load that
\* follows a logout, sends no current-user request, sets loading to false
\* and leaves the session unauthenticated.
C18_NoTokenNoRequest ==
  [][ /\ (IsLoad(event') /\ storedToken = NULL)
           => /\ ~InFlight(pending', "me")
              /\ \A i \in 1..Len(sent') : sent'[i].kind # "me"
              /\ ~authLoading' /\ ~isAuthenticated' /\ token' = NULL
      /\ (event.op = "call" /\ event.kind = "logout" /\ IsLoad(event'))
           => (~InFlight(pending', "me") /\ ~authLoading' /\ ~isAuthenticated')
    ]_vars

\* The OAuth callback page has just been loaded with a token in its fragment
\* and none persisted: the exchange is the only request.
C18_Witness ==
  /\ IsLoad(event) /\ event.kind = "callback"
  /\ storedToken = NULL /\ ~authLoading /\ ~isAuthenticated
  /\ sent = << Req("google", "gtok", FALSE, FALSE) >>

\* C19 as stated: with an error parameter in the fragment, whatever its
\* value, the view is in the error state and no token exchange is sent or
\* in flight.
C19_ErrorParameterMeansNoExchange ==
  [][ hash'.error # NULL
        => /\ status' = "error"
           /\ ~InFlight(pending', "google")
           /\ \A i \in 1..Len(sent') : sent'[i].kind # "google" ]_vars

\* C19 amended: with an error parameter of a non-empty value in the
\* fragment, with or without an access_token, the view is in the error state
\* and no token exchange is sent or in flight.
C19_NonEmptyErrorMeansNoExchange ==
  [][ TruthyParam(hash'.error)
        => /\ status' = "error"
           /\ callbackError' = "Authentication was cancelled or failed"
           /\ ~InFlight(pending', "google")
           /\ \A i \in 1..Len(sent') : sent'[i].kind # "google" ]_vars

\* The callback was opened with #error=access_denied beside an access_token.
C19_Witness ==
  /\ hash.error = "access_denied" /\ hash.access_token = "gtok"
  /\ status = "error" /\ ~InFlight(pending, "google")

ViewReplaced(e) == e.op \in {"load", "redirect", "retry"}

\* C20: in the life of one callback view the status goes from processing to
\* success or to error at most once and then stays; it becomes success only
\* in the step in which the token exchange returns successfully; a fragment
\* without an access token and a failed exchange give error; the redirect
\* timer is set only in the step that reaches success.
C20_StatusChangesOnce ==
  [][ /\ (IsLoad(event') /\ event'.kind = "callback")
           => /\ status' \in {"processing", "error"}
              /\ ~TruthyParam(hash'.access_token) => status' = "error"
              /\ ~redirectScheduled'
      /\ ~ViewReplaced(event')
           => /\ status \in {"success", "error"} => status' = status
              /\ status' # status
                   => (status = "processing" /\ status' \in {"success", "error"})
              /\ (status' = "success" /\ status # "success")
                   => (IsResponse(event', "google") /\ event'.ok)
              /\ (IsResponse(event', "google") /\ ~event'.ok) => status' = "error"
              /\ (redirectScheduled' /\ ~redirectScheduled)
                   => (status' = "success" /\ status = "processing")
      /\ redirectScheduled' => status' = "success"
    ]_vars

\* The token exchange has just failed: the view is in the error state and no
\* redirect is scheduled.
C20_Witness ==
  /\ IsResponse(event, "google") /\ ~event.ok
  /\ status = "error" /\ ~redirectScheduled
  /\ callbackError # ""

\* ---------------------------------------------------------------------------
\* Claims C21..C30

\* A current-user response for a token other than the one persisted now: its
\* request was sent before the login that stored the present token.
StaleFetchUser(e) == IsResponse(e, "me") /\ e.vid # storedToken

\* C21: the persisted token is written by login, signup, the OAuth exchange
\* and logout only, and the completion of an operation that began before a
\* login never removes or replaces the token that login stored: a step that
\* is not a successful login response or a logout leaves the persisted token
\* as it is unless it completes the validation of that very token.
C21_NoRacingTokenWrite ==
  [][ /\ storedToken' # storedToken
           => \/ (event'.op = "response" /\ event'.kind \in LoginKinds /\ event'.ok)
              \/ (event'.op = "call" /\ event'.kind = "logout")
              \/ IsResponse(event', "me")
      /\ (StaleFetchUser(event') /\ storedToken # NULL)
           => storedToken' = storedToken
    ]_vars

\* C25: once the session is unauthenticated (user null, in-memory token null,
\* nothing persisted) it stays so until a login, signup or OAuth exchange
\* succeeds; a current-user response still in flight does not restore the
\* user.
C25_LoggedOutUntilNextLogin ==
  [][ (user = NULL /\ token = NULL /\ storedToken = NULL)
        => \/ (user' = NULL /\ token' = NULL /\ storedToken' = NULL)
           \/ (event'.op = "response" /\ event'.kind \in LoginKinds /\ event'.ok)
    ]_vars

\* C23: whenever the video page shows video V, the stored transcript,
\* summary, quiz and PDF info (and with them the flags that gate the content
\* tools) come from requests made for V: nothing of another video is kept
\* after a route change and no late response for another video is stored.
C23_StoredResultsBelongToShownVideo ==
  /\ transcript \in {NULL, videoId}
  /\ summary \in {NULL, videoId}
  /\ quiz \in {NULL, videoId}
  /\ pdfInfo \in {NULL, videoId}

\* The stage of question q: 0 unanswered, 1 selected, 2 revealed.
Stage(sel, rev, q) ==
  IF IsRevealed(rev, q) THEN 2 ELSE IF q \in DOMAIN sel THEN 1 ELSE 0

\* C24: in every reachable quiz state a revealed question has a stored
\* (non-empty) selection, and 0 <= score <= number of revealed questions <=
\* number of questions; each question moves forward one stage at a time,
\* unanswered, then selected, then revealed, and is revealed only by the
\* reveal action taken on a selected, unrevealed question.
C24_RevealedOnlyIfSelected ==
  /\ [] /\ \A q \in QIdx : IsRevealed(revealed, q)
                             => (q \in DOMAIN selected /\ Truthy(Get(selected, q)))
        /\ 0 <= score /\ score <= scoreOutOf
        /\ scoreOutOf <= Cardinality(DOMAIN questions)
  /\ [][ \A q \in QIdx :
           /\ Stage(selected', revealed', q) >= Stage(selected, revealed, q)
           /\ Stage(selected', revealed', q) <= Stage(selected, revealed, q) + 1
           /\ (IsRevealed(revealed', q) /\ ~IsRevealed(revealed, q))
                => /\ quizEvent'.op = "handleReveal" /\ quizEvent'.q = q
                   /\ Truthy(Get(selected, q))
       ]_vars

\* One question has just been revealed, another holds a selection and is not
\* revealed, a third is unanswered.
C24_Witness ==
  /\ quizEvent.op = "handleReveal"
  /\ Stage(selected, revealed, quizEvent.q) = 2
  /\ \E q \in QIdx : Stage(selected, revealed, q) = 1
  /\ \E q \in QIdx : Stage(selected, revealed, q) = 0
  /\ scoreOutOf = 1

\* C27: generate summary (generate quiz) invoked with a transcript present
\* makes summary (quiz) the active tab in the step that sends the request,
\* before any response; no response, success or failure, changes the active
\* tab, so a tab picked while the request is pending is still active after
\* the request resolves.
C27_TabSetAtDispatchOnly ==
  [][ /\ \A k \in {"summary", "quiz"} :
           (event'.op = "call" /\ event'.kind = k /\ transcript # NULL)
             => (activeTab' = k /\ Sends(sent', k))
      /\ event'.op = "response" => activeTab' = activeTab
    ]_vars

\* A summary or quiz request has just resolved while the tab the user picked
\* after the dispatch, another one than the request's, is active.
C27_Witness ==
  /\ event.op = "response" /\ event.kind \in {"summary", "quiz"} /\ event.ok
  /\ activeTab # event.kind
  /\ (event.kind = "summary" => summary # NULL)
  /\ (event.kind = "quiz" => quiz # NULL)

\* C30: every PDF request the page sends carries include_summary = true
\* exactly when a summary is stored at dispatch and include_quiz = true
\* exactly when a quiz is stored at dispatch; at least one of the two is true.
C30_PDFFlagsMirrorStoredContent ==
  [][ \A i \in 1..Len(sent') :
        sent'[i].kind = "pdf"
          => /\ sent'[i].include_summary = (summary # NULL)
             /\ sent'[i].include_quiz = (quiz # NULL)
             /\ (sent'[i].include_summary \/ sent'[i].include_quiz)
             /\ sent'[i].vid = videoId
    ]_vars

\* A PDF request sent with a quiz stored and no summary.
C30_Witness ==
  /\ event.op = "call" /\ event.kind = "pdf"
  /\ Sends(sent, "pdf")
  /\ summary = NULL /\ quiz # NULL
  /\ \E r \in BagToSet(pending) :
       r.kind = "pdf" /\ ~r.include_summary /\ r.include_quiz

\* C29: for each of summary, quiz, PDF and the five content tools at most
\* one request of that kind is in flight at any time, because the action's
\* loading flag is true, and its trigger disabled, while its request is in
\* flight.
C29_AtMostOneRequestPerAction ==
  \A r \in BagToSet(pending) :
    r.kind \in ActionKinds
      => /\ pending[r] = 1
         /\ \A r2 \in BagToSet(pending) : r2.kind = r.kind => r2 = r
         /\ FlagOf(r.kind)

\* Two actions in flight at once, a page action and a content tool, each
\* with its own flag set, after an earlier request of the tool has resolved.
C29_Witness ==
  /\ InFlight(pending, "quiz") /\ InFlight(pending, "script")
  /\ loadingQuiz /\ loading["script"]
  /\ script # NULL
  /\ event.op = "call"

RecommendationKinds == {"similar", "index", "similarAfterIndex"}

\* C26: the recommendations loading flag is true whenever a recommendation
\* request (similar videos, or the index request and the similar-videos
\* request that follows it) is in flight, also when the transcript-triggered
\* fetch and the summary-triggered index-and-fetch overlap.
C26_LoadingWhileRecommendationsInFlight ==
  (\E k \in RecommendationKinds : InFlight(pending, k)) => loadingRecommendations

\* The response to a request whose view is gone.
Orphaned(e) ==
  /\ e.op = "response"
  /\ \/ e.kind \in PageKinds /\ videoId = NULL
     \/ e.kind = "google" /\ status = NULL

\* C22: unmounting a view aborts none of its requests, and the later
\* resolution of such a request is a no-op: it writes no view state, raises
\* no notification, sends no follow-up request and triggers no navigation.
C22_ResolutionAfterUnmountIsNoOp ==
  [][ /\ (event'.op = "unmount" \/ (event'.op = "navigate" /\ event'.kind = "callback"))
           => pending' = pending
      /\ Orphaned(event')
           => /\ UNCHANGED << pageVars, toolVars, quizVars, hash, status, callbackError >>
              /\ toasts' = <<>>
              /\ sent' = <<>>
              /\ ~redirectScheduled'
    ]_vars

\* The loading flag that covers a request of this kind.
LoadingFlag(kind) ==
  CASE kind = "transcript" -> loadingTranscript
    [] kind \in RecommendationKinds -> loadingRecommendations
    [] kind = "search" -> searchLoading
    [] kind \in {"login", "signup"} -> submitLoading
    [] OTHER -> FlagOf(kind)

FlaggedKinds == RequestKinds \ {"me"}

\* C28: every loading flag (transcript, summary, quiz, PDF, recommendations,
\* each content tool, search, login/signup submit) is true after the step
\* in which its handler sends its request and false after the step in which
\* the request resolves, with success or with failure (an index request that
\* succeeds is followed by its similar-videos request, which resolves it); if
\* every pending request eventually gets a response, a flag that is true
\* becomes false again.
C28_LoadingFlagsAreReset ==
  /\ [][ \A k \in FlaggedKinds :
           /\ (Sends(sent', k) /\ k # "similarAfterIndex") => LoadingFlag(k)'
           /\ (IsResponse(event', k) /\ ~Sends(sent', "similarAfterIndex"))
                => ~LoadingFlag(k)'
       ]_vars
  /\ \A k \in FlaggedKinds : LoadingFlag(k) ~> ~LoadingFlag(k)

\* A search has just failed: its error toast is raised and the flag of
\* HomePage is false again.
C28_Witness ==
  /\ IsResponse(event, "search") /\ ~event.ok
  /\ ~searchLoading /\ searched
  /\ IsErrorToast(toasts)

====
